---- MODULE Spec2Model ----
(***************************************************************************)
(* A model of the ieee802_3_miim crate: the register models, the MMD       *)
(* indirect register access protocol and the generic Phy contract, run     *)
(* against a PHY device that sits behind the Mii transport.                *)
(*                                                                         *)
(* One step of a caller is one transport operation (Mii::read/Mii::write), *)
(* which is the granularity at which two callers of one bus can interleave.*)
(***************************************************************************)
EXTENDS Naturals, Integers, Sequences, FiniteSets, TLC

VARIABLES
    regs,      \* PHY: the base register file, register number -> 16-bit word
    mmdAddr,   \* PHY: the address register of each MMD device
    ext,       \* PHY: the extended (MMD) registers, <<device, address>> -> word
    pc,        \* per caller: position in the operation it runs
    args,      \* per caller: the operation and its arguments
    loc,       \* per caller: the local variables of the operation
    ret,       \* per caller: <<>> or <<value returned>>
    log,       \* per caller: the transport operations its operation issued
    hist,      \* per caller: history (snapshot at the call, register hit, interference)
    calls      \* the number of operations begun so far

vars == <<regs, mmdAddr, ext, pc, args, loc, ret, log, hist, calls>>
phyVars == <<regs, mmdAddr, ext>>

-----------------------------------------------------------------------------
(* Bounds of the model *)

\* how many operations the callers begin in one behaviour
MaxCalls == 2
\* how many of the sampled device addresses callers pass
NumDevAddrs == 3
\* how many of the sampled extended register addresses callers pass
NumRegAddrs == 2
\* how many of the sampled data words callers write
NumData == 2
\* how many reads of the reset loop the log keeps apart
MaxPolls == 3
\* how many times a caller sets the data of the next page it holds
MaxSetData == 2
\* how many calls of link_established by block_until_link the log keeps apart
MaxLinkPolls == 2

DevAddrSample == <<3, 37, 5, 255, 0>>
RegAddrSample == <<4660, 32784, 65535, 1>>
DataSample == <<0, 48879, 4660, 65535>>

DevAddrs == {DevAddrSample[i] : i \in 1..NumDevAddrs}
RegAddrs == {RegAddrSample[i] : i \in 1..NumRegAddrs}
DataVals == {DataSample[i] : i \in 1..NumData}

Callers == {1, 2}

-----------------------------------------------------------------------------
(* 16-bit words and the bit operators of the source *)

Word == 65536

RECURSIVE BitAnd(_, _)
BitAnd(a, b) ==
    IF a = 0 \/ b = 0 THEN 0
    ELSE (a % 2) * (b % 2) + 2 * BitAnd(a \div 2, b \div 2)

RECURSIVE BitOr(_, _)
BitOr(a, b) ==
    IF a = 0 THEN b
    ELSE IF b = 0 THEN a
    ELSE (IF a % 2 = 1 \/ b % 2 = 1 THEN 1 ELSE 0) + 2 * BitOr(a \div 2, b \div 2)

BitNot(a) == (Word - 1) - a

\* bitflags: contains, insert, remove on the raw bits
Contains(bits, flag) == BitAnd(bits, flag) = flag
Insert(bits, flag) == BitOr(bits, flag)
Remove(bits, flag) == BitAnd(bits, BitNot(flag))

\* bit i of w, for stating properties
Bit(w, i) == (w \div (2 ^ i)) % 2

-----------------------------------------------------------------------------
(* mmd.rs: MmdAddress *)

MmdAddress_ADDRESS == 0
MmdAddress_DATA_NO_POSTINC == 16384
MmdAddress_DATA_POSTINC_RW == 32768
MmdAddress_DATA_POSTINC_W == 49152

MmdAddress_CONTROL_ADDRESS == 13
MmdAddress_DATA_ADRESS_ADDRESS == 14
MmdAddress_DEVAD_MASK == 31

Mut_set_device_address_unmasked(bits, address) == BitOr(bits, address)

\* self.bits |= address as u16 & Self::DEVAD_MASK
MmdAddress_set_device_address(bits, address) ==
    BitOr(bits, BitAnd(address, MmdAddress_DEVAD_MASK))

Mut_device_address_unset(device_address) == MmdAddress_ADDRESS

\* let mut me = Self::ADDRESS; me.set_device_address(device_address); me
MmdAddress_device_address(device_address) ==
    MmdAddress_set_device_address(MmdAddress_ADDRESS, device_address)

Mut_mode_switch_postinc(mmd_address) ==
    Insert(Remove(mmd_address, MmdAddress_ADDRESS), MmdAddress_DATA_POSTINC_W)

Mut_mode_switch_missing(mmd_address) ==
    Remove(mmd_address, MmdAddress_ADDRESS)

\* mmd_address.remove(ADDRESS); mmd_address.insert(DATA_NO_POSTINC) of Mmd::read
Mmd_read_mode_switch(mmd_address) ==
    Insert(Remove(mmd_address, MmdAddress_ADDRESS), MmdAddress_DATA_NO_POSTINC)

\* the same two statements of Mmd::write
Mmd_write_mode_switch(mmd_address) ==
    Insert(Remove(mmd_address, MmdAddress_ADDRESS), MmdAddress_DATA_NO_POSTINC)

-----------------------------------------------------------------------------
(* registers.rs: Bsr and AutoNegCap *)

Bsr_ADDRESS == 1
Bsr_100BASET4 == 2 ^ 15
Bsr_100BASEXFD == 2 ^ 14
Bsr_100BASEXHD == 2 ^ 13
Bsr_10MPBSFD == 2 ^ 12
Bsr_10MBPSHD == 2 ^ 11
Bsr_100BASET2FD == 2 ^ 10
Bsr_100BASET2HD == 2 ^ 9
Bsr_EXTENDED_STATUS == 2 ^ 8
Bsr_UNIDRECTIONAL == 2 ^ 7
Bsr_MF_PREAMBLE_SUPPRESSION == 2 ^ 6
Bsr_AUTONEG_COMPLETE == 2 ^ 5
Bsr_REMOTE_FAULT == 2 ^ 4
Bsr_AUTONEG_ABLE == 2 ^ 3
Bsr_LINK_STATUS == 2 ^ 2
Bsr_JABBER_DETECT == 2 ^ 1
Bsr_EXTENDED_CAPABILITIES == 2 ^ 0

\* every bit of the word is a flag of Bsr
Bsr_all == Word - 1

\* a truncation that keeps no bit
Mut_Bsr_from_bits_none(w) == 0

Bsr_from_bits_truncate(w) == BitAnd(w, Bsr_all)

AutoNegCap_TECH_ABILITY_OFFSET == 5
AutoNegCap_LOCAL_CAP_ADDRESS == 4
AutoNegCap_PARTNER_CAP_ADDRESS == 5

AutoNegCap_NEXT_PAGE == 2 ^ 15
AutoNegCap_REMOTE_FAULT == 2 ^ 13
AutoNegCap_EXTENDED_NEXT_PAGE == 2 ^ 12
\* 1 << Self::TECH_ABILITY_OFFSET + n shifts by the sum
AutoNegCap_10BASET == 2 ^ (AutoNegCap_TECH_ABILITY_OFFSET + 6)
AutoNegCap_10BASETFD == 2 ^ (AutoNegCap_TECH_ABILITY_OFFSET + 5)
AutoNegCap_100BASETX == 2 ^ (AutoNegCap_TECH_ABILITY_OFFSET + 4)
\* 1 << Self::TECH_ABILITY_OFFSET << 3 shifts twice
AutoNegCap_100BASETXFD == ((2 ^ AutoNegCap_TECH_ABILITY_OFFSET) * (2 ^ 3)) % Word
AutoNegCap_100BASET4 == 2 ^ (AutoNegCap_TECH_ABILITY_OFFSET + 2)
AutoNegCap_PAUSE == 2 ^ (AutoNegCap_TECH_ABILITY_OFFSET + 1)
AutoNegCap_ASSYMETRIC_PAUSE == 2 ^ AutoNegCap_TECH_ABILITY_OFFSET
AutoNegCap_SEL_802_3 == 1
AutoNegCap_SEL_802_9_ISLAN_16T == 2
AutoNegCap_SEL_802_5 == 3
AutoNegCap_SEL_1394 == 5

AutoNegCap_empty == 0

AutoNegCap_flags ==
    <<AutoNegCap_NEXT_PAGE, AutoNegCap_REMOTE_FAULT, AutoNegCap_EXTENDED_NEXT_PAGE,
      AutoNegCap_10BASET, AutoNegCap_10BASETFD, AutoNegCap_100BASETX,
      AutoNegCap_100BASETXFD, AutoNegCap_100BASET4, AutoNegCap_PAUSE,
      AutoNegCap_ASSYMETRIC_PAUSE, AutoNegCap_SEL_802_3,
      AutoNegCap_SEL_802_9_ISLAN_16T, AutoNegCap_SEL_802_5, AutoNegCap_SEL_1394>>

RECURSIVE UnionOfFlags(_, _)
UnionOfFlags(flags, n) ==
    IF n = 0 THEN 0 ELSE BitOr(flags[n], UnionOfFlags(flags, n - 1))

\* the union of the flags of AutoNegCap: the bits from_bits_truncate keeps
AutoNegCap_all == UnionOfFlags(AutoNegCap_flags, Len(AutoNegCap_flags))
AutoNegCap_from_bits_truncate(w) == BitAnd(w, AutoNegCap_all)

\* Register 0, the Base Control Register
Bcr_ADDRESS == 0

Bcr_RESET == 2 ^ 15
Bcr_LOOPBACK == 2 ^ 14
Bcr_SPEED_SEL_LSB == 2 ^ 13
Bcr_AUTONEG_ENABLE == 2 ^ 12
Bcr_POWER_DOWN == 2 ^ 11
Bcr_ISOLATE == 2 ^ 10
Bcr_RESTART_AUTONEG == 2 ^ 9
Bcr_DUPLEX_MODE == 2 ^ 8
Bcr_COLLISION_TEST == 2 ^ 7
Bcr_SPEED_SEL_MSB == 2 ^ 6
Bcr_UNIDIRECTIONAL_ENABLE == 2 ^ 5

Bcr_empty == 0

Bcr_flags ==
    <<Bcr_RESET, Bcr_LOOPBACK, Bcr_SPEED_SEL_LSB, Bcr_AUTONEG_ENABLE,
      Bcr_POWER_DOWN, Bcr_ISOLATE, Bcr_RESTART_AUTONEG, Bcr_DUPLEX_MODE,
      Bcr_COLLISION_TEST, Bcr_SPEED_SEL_MSB, Bcr_UNIDIRECTIONAL_ENABLE>>

Bcr_all == UnionOfFlags(Bcr_flags, Len(Bcr_flags))

\* a truncation that keeps every bit of the word
Mut_Bcr_from_bits_retain(w) == w

\* a truncation that drops the Reset bit as well
Mut_Bcr_from_bits_without_reset(w) == BitAnd(w, Bcr_all - Bcr_RESET)

\* a value in which the Reset bit is always set
Mut_Bcr_from_bits_with_reset(w) == BitAnd(w, Bcr_all - Bcr_RESET) + Bcr_RESET

\* Bcr::from_bits_truncate: the bits that are no flag of Bcr are dropped
Bcr_from_bits_truncate(w) == BitAnd(w, Bcr_all)

\* a setter that inserts the flag whatever the value
Mut_Bcr_set_insert_only(bcr, flag, value) == Insert(bcr, flag)

\* impl_flag!: fn $set(&mut self, value: bool)
Bcr_set(bcr, flag, value) == IF value THEN Insert(bcr, flag) ELSE Remove(bcr, flag)

\* Register 6, the Auto-negotiation Expansion Register
Ane_ADDRESS == 6

Ane_RX_NEXT_PAGE_LOC_ABLE == 2 ^ 6
Ane_RX_NEXT_PAGE_LOC == 2 ^ 5

\* the seven low bits are the flags of Ane
Ane_all == (2 ^ 7) - 1
Ane_from_bits_truncate(w) == BitAnd(w, Ane_all)

\* the location taken from the location bit whether or not it is valid
Mut_next_page_location_ungated(ane, default_value) ==
    IF Contains(ane, Ane_RX_NEXT_PAGE_LOC) THEN 8 ELSE 5

\* Ane::next_page_location
Ane_next_page_location(ane, default_value) ==
    IF Contains(ane, Ane_RX_NEXT_PAGE_LOC_ABLE)
    THEN IF Contains(ane, Ane_RX_NEXT_PAGE_LOC) THEN 8 ELSE 5
    ELSE default_value

\* Register 5 or register 8, the Next Page register
NextPage_DATA_MASK == 2047

\* NextPage::data
NextPage_data(bits) == BitAnd(bits, NextPage_DATA_MASK)

\* NextPage::set_data: self.bits |= data & Self::DATA_MASK
NextPage_set_data(bits, data) == BitOr(bits, BitAnd(data, NextPage_DATA_MASK))

\* Register 15, the Extended Status Register
Esr_ADDRESS == 15

Esr_1000BASEXFD == 2 ^ 15
Esr_1000BASEXHD == 2 ^ 14
Esr_1000BASETFD == 2 ^ 13
Esr_1000BASETHD == 2 ^ 12

Esr_all == UnionOfFlags(<<Esr_1000BASEXFD, Esr_1000BASEXHD, Esr_1000BASETFD,
                          Esr_1000BASETHD>>, 4)
Esr_from_bits_truncate(w) == BitAnd(w, Esr_all)

-----------------------------------------------------------------------------
(* lib.rs: LinkSpeed *)

LinkSpeed == {"Mpbs1000", "Mbps100", "Mpbs10", "Illegal"}

\* the pair read as <<LSB, MSB>>
Mut_LinkSpeed_from_lsb_first(bcr) ==
    LET msb == Contains(bcr, Bcr_SPEED_SEL_LSB)
        lsb == Contains(bcr, Bcr_SPEED_SEL_MSB)
    IN  CASE msb /\ lsb -> "Illegal"
          [] msb /\ ~lsb -> "Mpbs1000"
          [] ~msb /\ lsb -> "Mbps100"
          [] ~msb /\ ~lsb -> "Mpbs10"

\* impl From<Bcr> for LinkSpeed
LinkSpeed_from(bcr) ==
    LET msb == Contains(bcr, Bcr_SPEED_SEL_MSB)
        lsb == Contains(bcr, Bcr_SPEED_SEL_LSB)
    IN  CASE msb /\ lsb -> "Illegal"
          [] msb /\ ~lsb -> "Mpbs1000"
          [] ~msb /\ lsb -> "Mbps100"
          [] ~msb /\ ~lsb -> "Mpbs10"

\* an encoding that gives the illegal speed both bits
Mut_Bcr_from_LinkSpeed_total(link_speed) ==
    CASE link_speed = "Mpbs1000" -> [panic |-> FALSE, bits |-> Bcr_SPEED_SEL_MSB]
      [] link_speed = "Mbps100" -> [panic |-> FALSE, bits |-> Bcr_SPEED_SEL_LSB]
      [] link_speed = "Mpbs10" -> [panic |-> FALSE, bits |-> Bcr_empty]
      [] link_speed = "Illegal" ->
             [panic |-> FALSE, bits |-> BitOr(Bcr_SPEED_SEL_MSB, Bcr_SPEED_SEL_LSB)]

\* impl From<LinkSpeed> for Bcr; panic is
\* panic!("Cannot convert illegal link speed into Bcr")
Bcr_from_LinkSpeed(link_speed) ==
    CASE link_speed = "Mpbs1000" -> [panic |-> FALSE, bits |-> Bcr_SPEED_SEL_MSB]
      [] link_speed = "Mbps100" -> [panic |-> FALSE, bits |-> Bcr_SPEED_SEL_LSB]
      [] link_speed = "Mpbs10" -> [panic |-> FALSE, bits |-> Bcr_empty]
      [] link_speed = "Illegal" -> [panic |-> TRUE, bits |-> Bcr_empty]

-----------------------------------------------------------------------------
(* lib.rs: PhyStatus, SelectorField, Pause, AutoNegotiationAdvertisement *)

NoStatus ==
    [base100_t4 |-> FALSE, fd_100base_x |-> FALSE, hd_100base_x |-> FALSE,
     fd_10mbps |-> FALSE, hd_10mbps |-> FALSE, extended_status |-> FALSE,
     unidirectional |-> FALSE, preamble_suppression |-> FALSE,
     autonegotiation |-> FALSE, extended_caps |-> FALSE]

\* Bsr::status(): the capability bits of the status register as PhyStatus
Bsr_status(bsr) ==
    [base100_t4 |-> Contains(bsr, Bsr_100BASET4),
     fd_100base_x |-> Contains(bsr, Bsr_100BASEXFD),
     hd_100base_x |-> Contains(bsr, Bsr_100BASEXHD),
     fd_10mbps |-> Contains(bsr, Bsr_10MPBSFD),
     hd_10mbps |-> Contains(bsr, Bsr_10MBPSHD),
     extended_status |-> Contains(bsr, Bsr_EXTENDED_STATUS),
     unidirectional |-> Contains(bsr, Bsr_UNIDRECTIONAL),
     preamble_suppression |-> Contains(bsr, Bsr_MF_PREAMBLE_SUPPRESSION),
     autonegotiation |-> Contains(bsr, Bsr_AUTONEG_ABLE),
     extended_caps |-> Contains(bsr, Bsr_EXTENDED_CAPABILITIES)]

SelectorField == {"Std802_3", "Std802_9Islan16t", "Std802_5", "Std1394"}
SelectorField_default == "Std802_3"

Mut_SelectorField_from_802_5_first(ana) ==
    IF Contains(ana, AutoNegCap_SEL_802_5) THEN "Std802_5"
    ELSE IF Contains(ana, AutoNegCap_SEL_802_3) THEN "Std802_3"
    ELSE IF Contains(ana, AutoNegCap_SEL_802_9_ISLAN_16T) THEN "Std802_9Islan16t"
    ELSE IF Contains(ana, AutoNegCap_SEL_1394) THEN "Std1394"
    ELSE "panic"

\* impl From<AutoNegCap> for SelectorField; "panic" is panic!("Invalid SEL field")
SelectorField_from(ana) ==
    IF Contains(ana, AutoNegCap_SEL_802_3) THEN "Std802_3"
    ELSE IF Contains(ana, AutoNegCap_SEL_802_5) THEN "Std802_5"
    ELSE IF Contains(ana, AutoNegCap_SEL_802_9_ISLAN_16T) THEN "Std802_9Islan16t"
    ELSE IF Contains(ana, AutoNegCap_SEL_1394) THEN "Std1394"
    ELSE "panic"

\* impl From<SelectorField> for AutoNegCap
AutoNegCap_from_SelectorField(sf) ==
    CASE sf = "Std802_3" -> AutoNegCap_SEL_802_3
      [] sf = "Std802_9Islan16t" -> AutoNegCap_SEL_802_9_ISLAN_16T
      [] sf = "Std802_5" -> AutoNegCap_SEL_802_5
      [] sf = "Std1394" -> AutoNegCap_SEL_1394

Pause == {"NoPause", "AsymmetricPartner", "Symmetric", "SymmetricAndAsymmetricLocal"}
Pause_default == "NoPause"

\* the pair matched with the PAUSE bit first
Mut_Pause_from_pause_first(ana) ==
    LET asym == Contains(ana, AutoNegCap_ASSYMETRIC_PAUSE)
        sym == Contains(ana, AutoNegCap_PAUSE)
    IN  CASE ~sym /\ ~asym -> "NoPause"
          [] sym /\ ~asym -> "AsymmetricPartner"
          [] ~sym /\ asym -> "Symmetric"
          [] sym /\ asym -> "SymmetricAndAsymmetricLocal"

Mut_AutoNegCap_from_Pause_swapped(pause) ==
    CASE pause = "NoPause" -> AutoNegCap_empty
      [] pause = "AsymmetricPartner" -> AutoNegCap_PAUSE
      [] pause = "Symmetric" -> AutoNegCap_ASSYMETRIC_PAUSE
      [] pause = "SymmetricAndAsymmetricLocal" ->
             BitOr(AutoNegCap_ASSYMETRIC_PAUSE, AutoNegCap_PAUSE)

\* impl From<AutoNegCap> for Pause
Pause_from(ana) ==
    LET asym == Contains(ana, AutoNegCap_ASSYMETRIC_PAUSE)
        sym == Contains(ana, AutoNegCap_PAUSE)
    IN  CASE ~asym /\ ~sym -> "NoPause"
          [] asym /\ ~sym -> "AsymmetricPartner"
          [] ~asym /\ sym -> "Symmetric"
          [] asym /\ sym -> "SymmetricAndAsymmetricLocal"

\* impl From<Pause> for AutoNegCap
AutoNegCap_from_Pause(pause) ==
    CASE pause = "NoPause" -> AutoNegCap_empty
      [] pause = "AsymmetricPartner" -> AutoNegCap_ASSYMETRIC_PAUSE
      [] pause = "Symmetric" -> AutoNegCap_PAUSE
      [] pause = "SymmetricAndAsymmetricLocal" ->
             BitOr(AutoNegCap_ASSYMETRIC_PAUSE, AutoNegCap_PAUSE)

AutoNegotiationAdvertisement ==
    [selector_field : SelectorField, hd_10base_t : BOOLEAN, fd_10base_t : BOOLEAN,
     hd_100base_tx : BOOLEAN, fd_100base_tx : BOOLEAN, base100_t4 : BOOLEAN,
     pause : Pause]

AutoNegotiationAdvertisement_default ==
    [selector_field |-> SelectorField_default, hd_10base_t |-> FALSE,
     fd_10base_t |-> FALSE, hd_100base_tx |-> FALSE, fd_100base_tx |-> FALSE,
     base100_t4 |-> FALSE, pause |-> Pause_default]

-----------------------------------------------------------------------------
(* The PHY device behind the transport *)

RegNums == 0..31

\* registers of the base set the device does not let the station write
ReadOnlyRegs == {1, 2, 3, 5, 6, 15}

MmdFunction(ctl) == ctl \div 16384
MmdDevad(ctl) == ctl % 32

ExtDevs == {d % 32 : d \in DevAddrs} \cup {0}
LatchVals == RegAddrs \cup DataVals \cup {0}
ExtKeys == ExtDevs \X LatchVals

\* contents of the extended registers at power up: all different
ExtReset(k) == (k[1] * 257 + (k[2] % 251) * 5 + 1) % Word

ExtRead(e, k) == IF k \in DOMAIN e THEN e[k] ELSE 0
ExtStore(e, k, v) == IF k \in DOMAIN e THEN [e EXCEPT ![k] = v] ELSE e

\* the extended register that register 14 stands for at the moment
MmdTarget == <<MmdDevad(regs[MmdAddress_CONTROL_ADDRESS]),
               mmdAddr[MmdDevad(regs[MmdAddress_CONTROL_ADDRESS])]>>

\* the word a read of base register reg returns
DevRead(reg) ==
    IF reg = MmdAddress_DATA_ADRESS_ADDRESS
    THEN IF MmdFunction(regs[MmdAddress_CONTROL_ADDRESS]) = 0
         THEN MmdTarget[2]
         ELSE ExtRead(ext, MmdTarget)
    ELSE regs[reg]

\* the effect of a read on the device (post-increment of the address register)
DevReadEffect(reg) ==
    IF reg = MmdAddress_DATA_ADRESS_ADDRESS
       /\ MmdFunction(regs[MmdAddress_CONTROL_ADDRESS]) = 2
    THEN /\ mmdAddr' = [mmdAddr EXCEPT ![MmdTarget[1]] = (@ + 1) % Word]
         /\ UNCHANGED <<regs, ext>>
    ELSE UNCHANGED phyVars

\* the effect of a write of v to base register reg
DevWrite(reg, v) ==
    IF reg = MmdAddress_DATA_ADRESS_ADDRESS
    THEN IF MmdFunction(regs[MmdAddress_CONTROL_ADDRESS]) = 0
         THEN /\ mmdAddr' = [mmdAddr EXCEPT ![MmdTarget[1]] = v]
              /\ UNCHANGED <<regs, ext>>
         ELSE /\ ext' = ExtStore(ext, MmdTarget, v)
              /\ mmdAddr' = IF MmdFunction(regs[MmdAddress_CONTROL_ADDRESS]) = 1
                            THEN mmdAddr
                            ELSE [mmdAddr EXCEPT ![MmdTarget[1]] = (@ + 1) % Word]
              /\ UNCHANGED regs
    ELSE /\ regs' = IF reg \in ReadOnlyRegs THEN regs ELSE [regs EXCEPT ![reg] = v]
         /\ UNCHANGED <<mmdAddr, ext>>

\* the device changes its Control or status register to v: the link comes
\* or goes, autonegotiation completes, a self-clearing bit clears
PhyChange(reg, v) ==
    /\ reg \in {0, 1, 31}
    /\ regs[reg] # v
    /\ regs' = [regs EXCEPT ![reg] = v]
    /\ UNCHANGED <<mmdAddr, ext, pc, args, loc, ret, log, hist, calls>>

\* the device completes a reset that is under way: the Reset bit of the
\* Control register clears itself
PhyResetDone ==
    /\ Contains(regs[Bcr_ADDRESS], Bcr_RESET)
    /\ regs' = [regs EXCEPT ![Bcr_ADDRESS] = Remove(@, Bcr_RESET)]
    /\ UNCHANGED <<mmdAddr, ext, pc, args, loc, ret, log, hist, calls>>

-----------------------------------------------------------------------------
(* lib.rs: Phy::read and Phy::write, the transport operations of a caller *)

\* a caller between the first and the last transport operation of a sequence
Mid(c) == pc[c] \notin {"idle", "done", "panicked"} /\ log[c] # <<>>

\* another caller's write lands inside the sequences that are under way
Interfere(c) ==
    [o \in Callers |->
        IF o # c /\ Mid(o) THEN [hist[o] EXCEPT !.intr = TRUE] ELSE hist[o]]

\* fn read(&self, address) -> u16 { mii.read(phy, address) }
Phy_read(c, address) ==
    /\ DevReadEffect(address)
    /\ log' = [log EXCEPT ![c] = Append(@, <<"r", address, DevRead(address)>>)]
    /\ UNCHANGED calls

\* fn write(&mut self, address, value) { mii.write(phy, address, value) }
Phy_write(c, address, value) ==
    /\ DevWrite(address, value)
    /\ log' = [log EXCEPT ![c] = Append(@, <<"w", address, value>>)]
    /\ UNCHANGED calls

-----------------------------------------------------------------------------
(* The state of a caller *)

NoArgs == [name |-> "none", d |-> 0, r |-> 0, v |-> 0,
           ad |-> AutoNegotiationAdvertisement_default,
           sf |-> SelectorField_default, pause |-> Pause_default,
           status |-> NoStatus, on |-> FALSE, link_speed |-> "Mpbs10",
           ane |-> 0, default_next_page |-> 0, has_mmd |-> FALSE,
           restarts |-> FALSE]
NoLoc == [mmd_address |-> 0, status |-> NoStatus, ana |-> 0, bcr |-> 0,
          msb |-> 0, page |-> 0, datas |-> <<>>, bsr |-> 0]
NoHist == [ext0 |-> <<>>, regs0 |-> <<>>, hit |-> <<>>, intr |-> FALSE,
           polls |-> 0, tick |-> 0]

\* exclusive access to the transport: nobody else is inside an operation
Exclusive(c) == \A o \in Callers \ {c} : pc[o] = "idle"

Begin(c, a, l) ==
    /\ pc[c] = "idle"
    /\ calls < MaxCalls
    /\ calls' = calls + 1
    /\ args' = [args EXCEPT ![c] = a]
    /\ loc' = [loc EXCEPT ![c] = l]
    /\ ret' = [ret EXCEPT ![c] = <<>>]
    /\ log' = [log EXCEPT ![c] = <<>>]
    /\ hist' = [hist EXCEPT ![c] = [NoHist EXCEPT !.ext0 = ext, !.regs0 = regs]]
    /\ UNCHANGED phyVars

\* the operation has returned and the caller is free for the next one
Return(c) ==
    /\ pc[c] \in {"done", "panicked"}
    /\ pc' = [pc EXCEPT ![c] = "idle"]
    /\ args' = [args EXCEPT ![c] = NoArgs]
    /\ loc' = [loc EXCEPT ![c] = NoLoc]
    /\ ret' = [ret EXCEPT ![c] = <<>>]
    /\ log' = [log EXCEPT ![c] = <<>>]
    /\ hist' = [hist EXCEPT ![c] = NoHist]
    /\ UNCHANGED <<phyVars, calls>>

-----------------------------------------------------------------------------
(* mmd.rs: Mmd::read, reached through Phy::mmd_read *)

MmdReadCall(c, device_address, reg_address) ==
    /\ Begin(c, [NoArgs EXCEPT !.name = "mmd_read", !.d = device_address,
                               !.r = reg_address],
                [NoLoc EXCEPT !.mmd_address =
                                  MmdAddress_device_address(device_address)])
    /\ pc' = [pc EXCEPT ![c] = "mmd_read_1"]

\* phy.write(CONTROL_ADDRESS, mmd_address.bits())
MmdRead1(c) ==
    /\ pc[c] = "mmd_read_1"
    /\ Phy_write(c, MmdAddress_CONTROL_ADDRESS, loc[c].mmd_address)
    /\ pc' = [pc EXCEPT ![c] = "mmd_read_2"]
    /\ hist' = Interfere(c)
    /\ UNCHANGED <<args, loc, ret>>

\* phy.write(DATA_ADRESS_ADDRESS, reg_address), then the mode switch
MmdRead2(c) ==
    /\ pc[c] = "mmd_read_2"
    /\ Phy_write(c, MmdAddress_DATA_ADRESS_ADDRESS, args[c].r)
    /\ loc' = [loc EXCEPT ![c].mmd_address = Mmd_read_mode_switch(@)]
    /\ pc' = [pc EXCEPT ![c] = "mmd_read_3"]
    /\ hist' = Interfere(c)
    /\ UNCHANGED <<args, ret>>

\* phy.write(CONTROL_ADDRESS, mmd_address.bits())
MmdRead3(c) ==
    /\ pc[c] = "mmd_read_3"
    /\ Phy_write(c, MmdAddress_CONTROL_ADDRESS, loc[c].mmd_address)
    /\ pc' = [pc EXCEPT ![c] = "mmd_read_4"]
    /\ hist' = Interfere(c)
    /\ UNCHANGED <<args, loc, ret>>

\* phy.read(DATA_ADRESS_ADDRESS), the value returned
MmdRead4(c) ==
    /\ pc[c] = "mmd_read_4"
    /\ Phy_read(c, MmdAddress_DATA_ADRESS_ADDRESS)
    /\ ret' = [ret EXCEPT ![c] = <<DevRead(MmdAddress_DATA_ADRESS_ADDRESS)>>]
    /\ pc' = [pc EXCEPT ![c] = "done"]
    /\ hist' = [hist EXCEPT ![c].hit =
                   <<MmdFunction(regs[MmdAddress_CONTROL_ADDRESS]), MmdTarget>>]
    /\ UNCHANGED <<args, loc>>

-----------------------------------------------------------------------------
(* mmd.rs: Mmd::write, reached through Phy::mmd_write *)

MmdWriteCall(c, device_address, reg_address, reg_data) ==
    /\ Begin(c, [NoArgs EXCEPT !.name = "mmd_write", !.d = device_address,
                               !.r = reg_address, !.v = reg_data],
                [NoLoc EXCEPT !.mmd_address =
                                  MmdAddress_device_address(device_address)])
    /\ pc' = [pc EXCEPT ![c] = "mmd_write_1"]

\* phy.write(CONTROL_ADDRESS, mmd_address.bits())
MmdWrite1(c) ==
    /\ pc[c] = "mmd_write_1"
    /\ Phy_write(c, MmdAddress_CONTROL_ADDRESS, loc[c].mmd_address)
    /\ pc' = [pc EXCEPT ![c] = "mmd_write_2"]
    /\ hist' = Interfere(c)
    /\ UNCHANGED <<args, loc, ret>>

\* phy.write(DATA_ADRESS_ADDRESS, reg_address), then the mode switch
MmdWrite2(c) ==
    /\ pc[c] = "mmd_write_2"
    /\ Phy_write(c, MmdAddress_DATA_ADRESS_ADDRESS, args[c].r)
    /\ loc' = [loc EXCEPT ![c].mmd_address = Mmd_write_mode_switch(@)]
    /\ pc' = [pc EXCEPT ![c] = "mmd_write_3"]
    /\ hist' = Interfere(c)
    /\ UNCHANGED <<args, ret>>

\* phy.write(CONTROL_ADDRESS, mmd_address.bits())
MmdWrite3(c) ==
    /\ pc[c] = "mmd_write_3"
    /\ Phy_write(c, MmdAddress_CONTROL_ADDRESS, loc[c].mmd_address)
    /\ pc' = [pc EXCEPT ![c] = "mmd_write_4"]
    /\ hist' = Interfere(c)
    /\ UNCHANGED <<args, loc, ret>>

\* phy.write(DATA_ADRESS_ADDRESS, reg_data)
MmdWrite4(c) ==
    /\ pc[c] = "mmd_write_4"
    /\ Phy_write(c, MmdAddress_DATA_ADRESS_ADDRESS, args[c].v)
    /\ pc' = [pc EXCEPT ![c] = IF args[c].name = "phy_init"
                               THEN "phy_init_ad" ELSE "done"]
    /\ hist' = [o \in Callers |->
                  IF o = c
                  THEN [hist[c] EXCEPT !.hit =
                         <<MmdFunction(regs[MmdAddress_CONTROL_ADDRESS]), MmdTarget>>]
                  ELSE Interfere(c)[o]]
    /\ UNCHANGED <<args, loc, ret>>

-----------------------------------------------------------------------------
(* lib.rs: Phy::set_autonegotiation_advertisement *)

\* if status.extended_caps { return; }
SetAd_returns_early(status) == status.extended_caps

Mut_advertisement_word_ungated(ad, status) ==
    LET a1 == IF ad.hd_10base_t /\ status.hd_10mbps
              THEN Insert(AutoNegCap_empty, AutoNegCap_10BASET) ELSE AutoNegCap_empty
        a2 == IF ad.fd_10base_t /\ status.fd_10mbps
              THEN Insert(a1, AutoNegCap_10BASETFD) ELSE a1
        a3 == IF ad.hd_100base_tx /\ status.hd_100base_x
              THEN Insert(a2, AutoNegCap_100BASETX) ELSE a2
        a4 == IF ad.fd_100base_tx
              THEN Insert(a3, AutoNegCap_100BASETXFD) ELSE a3
        a5 == IF ad.base100_t4 THEN Insert(a4, AutoNegCap_100BASET4) ELSE a4
        a6 == Insert(a5, AutoNegCap_from_SelectorField(ad.selector_field))
    IN  Insert(a6, AutoNegCap_from_Pause(ad.pause))

Mut_advertisement_word_t4_gated(ad, status) ==
    LET a1 == IF ad.hd_10base_t /\ status.hd_10mbps
              THEN Insert(AutoNegCap_empty, AutoNegCap_10BASET) ELSE AutoNegCap_empty
        a2 == IF ad.fd_10base_t /\ status.fd_10mbps
              THEN Insert(a1, AutoNegCap_10BASETFD) ELSE a1
        a3 == IF ad.hd_100base_tx /\ status.hd_100base_x
              THEN Insert(a2, AutoNegCap_100BASETX) ELSE a2
        a4 == IF ad.fd_100base_tx /\ status.fd_100base_x
              THEN Insert(a3, AutoNegCap_100BASETXFD) ELSE a3
        a5 == IF ad.base100_t4 /\ status.base100_t4
              THEN Insert(a4, AutoNegCap_100BASET4) ELSE a4
        a6 == Insert(a5, AutoNegCap_from_SelectorField(ad.selector_field))
    IN  Insert(a6, AutoNegCap_from_Pause(ad.pause))

\* the word built from AutoNegCap::empty() by the inserts of the function
SetAd_advertisement_word(ad, status) ==
    LET a1 == IF ad.hd_10base_t /\ status.hd_10mbps
              THEN Insert(AutoNegCap_empty, AutoNegCap_10BASET) ELSE AutoNegCap_empty
        a2 == IF ad.fd_10base_t /\ status.fd_10mbps
              THEN Insert(a1, AutoNegCap_10BASETFD) ELSE a1
        a3 == IF ad.hd_100base_tx /\ status.hd_100base_x
              THEN Insert(a2, AutoNegCap_100BASETX) ELSE a2
        a4 == IF ad.fd_100base_tx /\ status.fd_100base_x
              THEN Insert(a3, AutoNegCap_100BASETXFD) ELSE a3
        a5 == IF ad.base100_t4 THEN Insert(a4, AutoNegCap_100BASET4) ELSE a4
        a6 == Insert(a5, AutoNegCap_from_SelectorField(ad.selector_field))
    IN  Insert(a6, AutoNegCap_from_Pause(ad.pause))

SetAdCall(c, ad) ==
    /\ Begin(c, [NoArgs EXCEPT !.name = "set_autonegotiation_advertisement",
                               !.ad = ad], NoLoc)
    /\ pc' = [pc EXCEPT ![c] = "set_ad_1"]

\* let status = self.status(), a read of the status register; then the gate
\* and the construction of the word
SetAd1(c) ==
    /\ pc[c] = "set_ad_1"
    /\ Phy_read(c, Bsr_ADDRESS)
    /\ LET status == Bsr_status(Bsr_from_bits_truncate(DevRead(Bsr_ADDRESS)))
       IN  /\ loc' = [loc EXCEPT ![c].status = status,
                                 ![c].ana = IF SetAd_returns_early(status)
                                            THEN @
                                            ELSE SetAd_advertisement_word(args[c].ad,
                                                                          status)]
           /\ pc' = [pc EXCEPT ![c] = IF SetAd_returns_early(status)
                                      THEN "done" ELSE "set_ad_2"]
    /\ UNCHANGED <<args, ret, hist>>

\* self.write(AutoNegCap::LOCAL_CAP_ADDRESS, ana.bits())
SetAd2(c) ==
    /\ pc[c] = "set_ad_2"
    /\ Phy_write(c, AutoNegCap_LOCAL_CAP_ADDRESS, loc[c].ana)
    /\ pc' = [pc EXCEPT ![c] = "done"]
    /\ hist' = Interfere(c)
    /\ UNCHANGED <<args, loc, ret>>

-----------------------------------------------------------------------------
(* lib.rs: Phy::get_autonegotiation_partner_caps *)

PartnerCapsCall(c) ==
    /\ Begin(c, [NoArgs EXCEPT !.name = "get_autonegotiation_partner_caps"], NoLoc)
    /\ pc' = [pc EXCEPT ![c] = "partner_caps_1"]

\* the read of register 5 and the decoding of the word; the conversion of the
\* selector field panics on a word none of its patterns is contained in
PartnerCaps1(c) ==
    /\ pc[c] = "partner_caps_1"
    /\ Phy_read(c, AutoNegCap_PARTNER_CAP_ADDRESS)
    /\ LET ana == AutoNegCap_from_bits_truncate(DevRead(AutoNegCap_PARTNER_CAP_ADDRESS))
       IN  /\ loc' = [loc EXCEPT ![c].ana = ana]
           /\ IF SelectorField_from(ana) = "panic"
              THEN /\ pc' = [pc EXCEPT ![c] = "panicked"]
                   /\ UNCHANGED ret
              ELSE /\ pc' = [pc EXCEPT ![c] = "done"]
                   /\ ret' = [ret EXCEPT ![c] = <<
                        [selector_field |-> SelectorField_from(ana),
                         hd_10base_t |-> Contains(ana, AutoNegCap_10BASET),
                         fd_10base_t |-> Contains(ana, AutoNegCap_10BASETFD),
                         hd_100base_tx |-> Contains(ana, AutoNegCap_100BASETX),
                         fd_100base_tx |-> Contains(ana, AutoNegCap_100BASETXFD),
                         base100_t4 |-> Contains(ana, AutoNegCap_100BASET4),
                         pause |-> Pause_from(ana)] >>]
    /\ UNCHANGED <<args, hist>>

-----------------------------------------------------------------------------
(* lib.rs: Phy::bcr, Phy::modify_bcr and the operations built on them *)

\* the mutators of the Control register that take a bool
BcrFlagSetters ==
    {"set_loopback", "set_autonegotiation", "set_powered_down", "set_isolated",
     "set_collision_test", "set_unidirectional", "set_full_duplex"}

\* a table in which set_isolated changes the power down bit
Mut_BcrFlagOf_isolate_as_power_down(name) ==
    CASE name = "set_loopback" -> Bcr_LOOPBACK
      [] name = "set_autonegotiation" -> Bcr_AUTONEG_ENABLE
      [] name = "set_powered_down" -> Bcr_POWER_DOWN
      [] name = "set_isolated" -> Bcr_POWER_DOWN
      [] name = "set_collision_test" -> Bcr_COLLISION_TEST
      [] name = "set_unidirectional" -> Bcr_UNIDIRECTIONAL_ENABLE
      [] name = "set_full_duplex" -> Bcr_DUPLEX_MODE

\* the flag a setter made by flag! (and set_full_duplex) sets or clears
BcrFlagOf(name) ==
    CASE name = "set_loopback" -> Bcr_LOOPBACK
      [] name = "set_autonegotiation" -> Bcr_AUTONEG_ENABLE
      [] name = "set_powered_down" -> Bcr_POWER_DOWN
      [] name = "set_isolated" -> Bcr_ISOLATE
      [] name = "set_collision_test" -> Bcr_COLLISION_TEST
      [] name = "set_unidirectional" -> Bcr_UNIDIRECTIONAL_ENABLE
      [] name = "set_full_duplex" -> Bcr_DUPLEX_MODE

\* the closure an operation hands to modify_bcr, applied to the value read;
\* panic when the closure does not return
Mut_BcrClosure_speed_not_cleared(a, bcr) ==
    CASE a.name \in BcrFlagSetters ->
             [panic |-> FALSE, bits |-> Bcr_set(bcr, BcrFlagOf(a.name), a.on)]
      [] a.name = "restart_autonegotiation" ->
             [panic |-> FALSE, bits |-> Insert(bcr, Bcr_RESTART_AUTONEG)]
      [] a.name \in {"reset", "blocking_reset"} ->
             [panic |-> FALSE, bits |-> Bcr_set(bcr, Bcr_RESET, TRUE)]
      [] a.name = "set_link_speed" ->
             LET enc == Bcr_from_LinkSpeed(a.link_speed)
             IN  [panic |-> enc.panic, bits |-> Insert(bcr, enc.bits)]
      [] a.name = "phy_init" ->
             [panic |-> FALSE,
              bits |-> Insert(Bcr_set(bcr, Bcr_AUTONEG_ENABLE, TRUE), Bcr_RESTART_AUTONEG)]

BcrClosure(a, bcr) ==
    CASE a.name \in BcrFlagSetters ->
             [panic |-> FALSE, bits |-> Bcr_set(bcr, BcrFlagOf(a.name), a.on)]
      [] a.name = "restart_autonegotiation" ->
             [panic |-> FALSE, bits |-> Insert(bcr, Bcr_RESTART_AUTONEG)]
      [] a.name \in {"reset", "blocking_reset"} ->
             [panic |-> FALSE, bits |-> Bcr_set(bcr, Bcr_RESET, TRUE)]
      [] a.name = "set_link_speed" ->
             LET cleared == Remove(bcr, BitOr(Bcr_SPEED_SEL_MSB, Bcr_SPEED_SEL_LSB))
                 enc == Bcr_from_LinkSpeed(a.link_speed)
             IN  [panic |-> enc.panic, bits |-> Insert(cleared, enc.bits)]
      \* phy_init: bcr.set_autonegotiation(true).restart_autonegotiation()
      [] a.name = "phy_init" ->
             [panic |-> FALSE,
              bits |-> Insert(Bcr_set(bcr, Bcr_AUTONEG_ENABLE, TRUE), Bcr_RESTART_AUTONEG)]

ModifyBcrCall(c, name, on, link_speed) ==
    /\ Begin(c, [NoArgs EXCEPT !.name = name, !.on = on,
                               !.link_speed = link_speed], NoLoc)
    /\ pc' = [pc EXCEPT ![c] = "modify_bcr_1"]

\* let bcr = self.bcr(); let bcr = f(bcr);
ModifyBcr1(c) ==
    /\ pc[c] = "modify_bcr_1"
    /\ Phy_read(c, Bcr_ADDRESS)
    /\ LET out == BcrClosure(args[c], Bcr_from_bits_truncate(DevRead(Bcr_ADDRESS)))
       IN  IF out.panic
           THEN /\ pc' = [pc EXCEPT ![c] = "panicked"]
                /\ UNCHANGED loc
           ELSE /\ pc' = [pc EXCEPT ![c] = "modify_bcr_2"]
                /\ loc' = [loc EXCEPT ![c].bcr = out.bits]
    /\ UNCHANGED <<args, ret, hist>>

\* self.write(Bcr::ADDRESS, bcr.bits()); blocking_reset goes on to its loop
ModifyBcr2(c) ==
    /\ pc[c] = "modify_bcr_2"
    /\ Phy_write(c, Bcr_ADDRESS, loc[c].bcr)
    /\ pc' = [pc EXCEPT ![c] = IF args[c].name = "blocking_reset"
                               THEN "reset_poll" ELSE "done"]
    /\ hist' = Interfere(c)
    /\ UNCHANGED <<args, loc, ret>>

\* while self.is_resetting() {}: one evaluation of the condition, a read of
\* the Control register.  The log keeps the first MaxPolls - 1 reads of the
\* loop and the latest one; tick changes with every read.
ResetPoll(c) ==
    /\ pc[c] = "reset_poll"
    /\ DevReadEffect(Bcr_ADDRESS)
    /\ LET entry == <<"r", Bcr_ADDRESS, DevRead(Bcr_ADDRESS)>>
       IN  log' = IF hist[c].polls < MaxPolls
                  THEN [log EXCEPT ![c] = Append(@, entry)]
                  ELSE [log EXCEPT ![c][Len(log[c])] = entry]
    /\ hist' = [hist EXCEPT ![c].polls = IF @ < MaxPolls THEN @ + 1 ELSE @,
                            ![c].tick = 1 - @]
    /\ pc' = [pc EXCEPT ![c] =
                 IF Contains(Bcr_from_bits_truncate(DevRead(Bcr_ADDRESS)), Bcr_RESET)
                 THEN "reset_poll" ELSE "done"]
    /\ UNCHANGED <<args, loc, ret, calls>>

LinkSpeedCall(c) ==
    /\ Begin(c, [NoArgs EXCEPT !.name = "link_speed"], NoLoc)
    /\ pc' = [pc EXCEPT ![c] = "link_speed_1"]

\* self.bcr().into()
LinkSpeed1(c) ==
    /\ pc[c] = "link_speed_1"
    /\ Phy_read(c, Bcr_ADDRESS)
    /\ ret' = [ret EXCEPT ![c] =
                  <<LinkSpeed_from(Bcr_from_bits_truncate(DevRead(Bcr_ADDRESS)))>>]
    /\ pc' = [pc EXCEPT ![c] = "done"]
    /\ UNCHANGED <<args, loc, hist>>

-----------------------------------------------------------------------------
(* lib.rs: Phy::esr and Phy::extended_status *)

\* Option: None is the empty sequence, Some(x) the sequence of x
None == <<>>
Some(x) == <<x>>

\* the closure of extended_status with the technologies exchanged
Mut_ExtendedPhyStatus_x_and_t_swapped(esr) ==
    [fd_1000base_x |-> Contains(esr, Esr_1000BASETFD),
     hd_1000base_x |-> Contains(esr, Esr_1000BASETHD),
     fd_1000base_t |-> Contains(esr, Esr_1000BASEXFD),
     hd_1000base_t |-> Contains(esr, Esr_1000BASEXHD)]

\* the closure extended_status maps over the Esr
ExtendedPhyStatus_of(esr) ==
    [fd_1000base_x |-> Contains(esr, Esr_1000BASEXFD),
     hd_1000base_x |-> Contains(esr, Esr_1000BASEXHD),
     fd_1000base_t |-> Contains(esr, Esr_1000BASETFD),
     hd_1000base_t |-> Contains(esr, Esr_1000BASETHD)]

\* name is "esr" or "extended_status", which calls esr and maps its result
EsrCall(c, name) ==
    /\ Begin(c, [NoArgs EXCEPT !.name = name], NoLoc)
    /\ pc' = [pc EXCEPT ![c] = "esr_1"]

\* if self.status().extended_status { ... } else { None }
Esr1(c) ==
    /\ pc[c] = "esr_1"
    /\ Phy_read(c, Bsr_ADDRESS)
    /\ LET status == Bsr_status(Bsr_from_bits_truncate(DevRead(Bsr_ADDRESS)))
       IN  /\ loc' = [loc EXCEPT ![c].status = status]
           /\ IF status.extended_status
              THEN /\ pc' = [pc EXCEPT ![c] = "esr_2"]
                   /\ UNCHANGED ret
              ELSE /\ pc' = [pc EXCEPT ![c] = "done"]
                   /\ ret' = [ret EXCEPT ![c] = <<None>>]
    /\ UNCHANGED <<args, hist>>

\* Some(Esr::from_bits_truncate(mii.read(phy, Esr::ADDRESS)))
Esr2(c) ==
    /\ pc[c] = "esr_2"
    /\ Phy_read(c, Esr_ADDRESS)
    /\ LET esr == Esr_from_bits_truncate(DevRead(Esr_ADDRESS))
       IN  ret' = [ret EXCEPT ![c] =
                     IF args[c].name = "esr"
                     THEN <<Some(esr)>>
                     ELSE <<Some(ExtendedPhyStatus_of(esr))>>]
    /\ pc' = [pc EXCEPT ![c] = "done"]
    /\ UNCHANGED <<args, loc, hist>>

-----------------------------------------------------------------------------
(* lib.rs: Phy::phy_ident *)

\* a u32 as its two 16-bit halves: <<bits 31-16, bits 15-0>>
U32_from_u16(x) == <<0, x>>
U32_shl_16(x) == <<x[2], 0>>
U32_or(x, y) == <<BitOr(x[1], y[1]), BitOr(x[2], y[2])>>

\* the identifier with the two registers exchanged
Mut_phy_ident_value_swapped(msb, lsb) ==
    U32_or(U32_shl_16(U32_from_u16(lsb)), U32_from_u16(msb))

\* msb << 16 | lsb, of msb and lsb as u32
Phy_ident_value(msb, lsb) ==
    U32_or(U32_shl_16(U32_from_u16(msb)), U32_from_u16(lsb))

PhyIdentCall(c) ==
    /\ Begin(c, [NoArgs EXCEPT !.name = "phy_ident"], NoLoc)
    /\ pc' = [pc EXCEPT ![c] = "phy_ident_1"]

\* if self.status().extended_caps { ... } else { None }
PhyIdent1(c) ==
    /\ pc[c] = "phy_ident_1"
    /\ Phy_read(c, Bsr_ADDRESS)
    /\ LET status == Bsr_status(Bsr_from_bits_truncate(DevRead(Bsr_ADDRESS)))
       IN  /\ loc' = [loc EXCEPT ![c].status = status]
           /\ IF status.extended_caps
              THEN /\ pc' = [pc EXCEPT ![c] = "phy_ident_2"]
                   /\ UNCHANGED ret
              ELSE /\ pc' = [pc EXCEPT ![c] = "done"]
                   /\ ret' = [ret EXCEPT ![c] = <<None>>]
    /\ UNCHANGED <<args, hist>>

\* let msb = self.read(2) as u32
PhyIdent2(c) ==
    /\ pc[c] = "phy_ident_2"
    /\ Phy_read(c, 2)
    /\ loc' = [loc EXCEPT ![c].msb = DevRead(2)]
    /\ pc' = [pc EXCEPT ![c] = "phy_ident_3"]
    /\ UNCHANGED <<args, ret, hist>>

\* let lsb = self.read(3) as u32; Some(msb << 16 | lsb)
PhyIdent3(c) ==
    /\ pc[c] = "phy_ident_3"
    /\ Phy_read(c, 3)
    /\ ret' = [ret EXCEPT ![c] = <<Some(Phy_ident_value(loc[c].msb, DevRead(3)))>>]
    /\ pc' = [pc EXCEPT ![c] = "done"]
    /\ UNCHANGED <<args, loc, hist>>

-----------------------------------------------------------------------------
(* registers.rs: NextPage::new and NextPage::set_data *)

NextPageNewCall(c, ane, default_next_page) ==
    /\ Begin(c, [NoArgs EXCEPT !.name = "next_page_new", !.ane = ane,
                               !.default_next_page = default_next_page], NoLoc)
    /\ pc' = [pc EXCEPT ![c] = "next_page_new_1"]

\* let next_page = phy.read(ane.next_page_location(default_next_page));
\* Self::from_bits_unchecked(next_page)
NextPageNew1(c) ==
    /\ pc[c] = "next_page_new_1"
    /\ LET next_page == Ane_next_page_location(args[c].ane,
                                               args[c].default_next_page)
       IN  /\ Phy_read(c, next_page)
           /\ loc' = [loc EXCEPT ![c].page = DevRead(next_page)]
    /\ pc' = [pc EXCEPT ![c] = "next_page"]
    /\ UNCHANGED <<args, ret, hist>>

\* page.set_data(data), on the page the caller holds
NextPageSetData(c, data) ==
    /\ pc[c] = "next_page"
    /\ Len(loc[c].datas) < MaxSetData
    /\ loc' = [loc EXCEPT ![c].page = NextPage_set_data(@, data),
                          ![c].datas = Append(@, data)]
    /\ UNCHANGED <<phyVars, pc, args, ret, log, hist, calls>>

-----------------------------------------------------------------------------
(* lib.rs: the queries that are one read of a register, and Phy::ane *)

\* the getters of a flag of the Control register
BcrGetters ==
    {"is_resetting", "loopback", "autonegotiation", "powered_down", "isolated",
     "collision_test", "unidirectional", "is_full_duplex"}

\* the getters of a flag of the status register
BsrGetters == {"phy_link_up", "autoneg_completed"}

QueryNames == BcrGetters \cup BsrGetters \cup {"bcr", "bsr", "status"}

\* the register a query reads
QueryRegister(name) ==
    IF name \in BcrGetters \cup {"bcr"} THEN Bcr_ADDRESS ELSE Bsr_ADDRESS

\* a table in which autoneg_completed tests the link status
Mut_QueryFlagOf_link_for_autoneg(name) ==
    CASE name = "is_resetting" -> Bcr_RESET
      [] name = "loopback" -> Bcr_LOOPBACK
      [] name = "autonegotiation" -> Bcr_AUTONEG_ENABLE
      [] name = "powered_down" -> Bcr_POWER_DOWN
      [] name = "isolated" -> Bcr_ISOLATE
      [] name = "collision_test" -> Bcr_COLLISION_TEST
      [] name = "unidirectional" -> Bcr_UNIDIRECTIONAL_ENABLE
      [] name = "is_full_duplex" -> Bcr_DUPLEX_MODE
      [] name = "phy_link_up" -> Bsr_LINK_STATUS
      [] name = "autoneg_completed" -> Bsr_LINK_STATUS

\* the flag a getter tests with contains
QueryFlagOf(name) ==
    CASE name = "is_resetting" -> Bcr_RESET
      [] name = "loopback" -> Bcr_LOOPBACK
      [] name = "autonegotiation" -> Bcr_AUTONEG_ENABLE
      [] name = "powered_down" -> Bcr_POWER_DOWN
      [] name = "isolated" -> Bcr_ISOLATE
      [] name = "collision_test" -> Bcr_COLLISION_TEST
      [] name = "unidirectional" -> Bcr_UNIDIRECTIONAL_ENABLE
      [] name = "is_full_duplex" -> Bcr_DUPLEX_MODE
      [] name = "phy_link_up" -> Bsr_LINK_STATUS
      [] name = "autoneg_completed" -> Bsr_AUTONEG_COMPLETE

\* what a query makes of the word it has read
QueryResult(name, w) ==
    CASE name = "bcr" -> Bcr_from_bits_truncate(w)
      [] name = "bsr" -> Bsr_from_bits_truncate(w)
      [] name = "status" -> Bsr_status(Bsr_from_bits_truncate(w))
      [] name \in BcrGetters ->
             Contains(Bcr_from_bits_truncate(w), QueryFlagOf(name))
      [] name \in BsrGetters ->
             Contains(Bsr_from_bits_truncate(w), QueryFlagOf(name))

QueryCall(c, name) ==
    /\ Begin(c, [NoArgs EXCEPT !.name = name], NoLoc)
    /\ pc' = [pc EXCEPT ![c] = "query_1"]

\* self.bcr() or self.bsr(), and the accessor of the register model
Query1(c) ==
    /\ pc[c] = "query_1"
    /\ Phy_read(c, QueryRegister(args[c].name))
    /\ ret' = [ret EXCEPT ![c] =
                  <<QueryResult(args[c].name, DevRead(QueryRegister(args[c].name)))>>]
    /\ pc' = [pc EXCEPT ![c] = "done"]
    /\ UNCHANGED <<args, loc, hist>>

AneCall(c) ==
    /\ Begin(c, [NoArgs EXCEPT !.name = "ane"], NoLoc)
    /\ pc' = [pc EXCEPT ![c] = "ane_1"]

\* if self.status().extended_caps { ... } else { None }
Ane1(c) ==
    /\ pc[c] = "ane_1"
    /\ Phy_read(c, Bsr_ADDRESS)
    /\ LET status == Bsr_status(Bsr_from_bits_truncate(DevRead(Bsr_ADDRESS)))
       IN  /\ loc' = [loc EXCEPT ![c].status = status]
           /\ IF status.extended_caps
              THEN /\ pc' = [pc EXCEPT ![c] = "ane_2"]
                   /\ UNCHANGED ret
              ELSE /\ pc' = [pc EXCEPT ![c] = "done"]
                   /\ ret' = [ret EXCEPT ![c] = <<None>>]
    /\ UNCHANGED <<args, hist>>

\* Some(Ane::from_bits_truncate(self.read(Ane::ADDRESS)))
Ane2(c) ==
    /\ pc[c] = "ane_2"
    /\ Phy_read(c, Ane_ADDRESS)
    /\ ret' = [ret EXCEPT ![c] = <<Some(Ane_from_bits_truncate(DevRead(Ane_ADDRESS)))>>]
    /\ pc' = [pc EXCEPT ![c] = "done"]
    /\ UNCHANGED <<args, loc, hist>>

-----------------------------------------------------------------------------
(* phy/lan87xxa: the SMSC LAN87xxA PHYs (LAN8720A, LAN8742A) *)

PHY_REG_SSR == 31
PHY_REG_WUCSR == 32784
PHY_REG_SSR_ANDONE == 2 ^ 12

\* impl Phy for LAN87xxA: fn status(), a constant that reads no register
LAN87xxA_status ==
    [base100_t4 |-> FALSE, fd_100base_x |-> TRUE, hd_100base_x |-> TRUE,
     fd_10mbps |-> TRUE, hd_10mbps |-> TRUE, extended_status |-> FALSE,
     unidirectional |-> FALSE, preamble_suppression |-> FALSE,
     autonegotiation |-> TRUE, extended_caps |-> TRUE]

\* impl Phy for LAN87xxA: fn best_supported_advertisement()
LAN87xxA_best_supported_advertisement ==
    [AutoNegotiationAdvertisement_default EXCEPT
        !.hd_10base_t = TRUE, !.fd_10base_t = TRUE, !.hd_100base_tx = TRUE,
        !.fd_100base_tx = TRUE, !.base100_t4 = FALSE]

\* phy_init of LAN87xxA<M, HAS_MMD>.  restarts tells the two revisions of the
\* function apart: phy/lan87xxa/mod.rs ends with a modify_bcr that enables
\* and restarts autonegotiation, phy/lan87xxa.rs ends after the advertisement.
PhyInitCall(c, has_mmd, restarts) ==
    /\ Begin(c, [NoArgs EXCEPT !.name = "phy_init", !.has_mmd = has_mmd,
                               !.restarts = restarts, !.d = 3,
                               !.r = PHY_REG_WUCSR, !.v = 0,
                               !.ad = LAN87xxA_best_supported_advertisement],
                [NoLoc EXCEPT !.mmd_address = MmdAddress_device_address(3)])
    /\ pc' = [pc EXCEPT ![c] = IF has_mmd THEN "mmd_write_1" ELSE "phy_init_ad"]

\* self.set_autonegotiation_advertisement(self.best_supported_advertisement()):
\* let status = self.status() is the constant of this PHY and no transport
\* operation; the gate returns on it, or the word is built for the write
PhyInitAd(c) ==
    /\ pc[c] = "phy_init_ad"
    /\ LET status == LAN87xxA_status
       IN  /\ loc' = [loc EXCEPT ![c].status = status,
                                 ![c].ana = IF SetAd_returns_early(status)
                                            THEN @
                                            ELSE SetAd_advertisement_word(args[c].ad,
                                                                          status)]
           /\ pc' = [pc EXCEPT ![c] =
                        IF SetAd_returns_early(status)
                        THEN (IF args[c].restarts THEN "modify_bcr_1" ELSE "done")
                        ELSE "set_ad_2"]
    /\ UNCHANGED <<phyVars, args, ret, log, hist, calls>>

\* a result that leaves the special status register out
Mut_LAN87xxA_established_without_ssr(bsr, ssr) ==
    Contains(bsr, Bsr_LINK_STATUS) /\ Contains(bsr, Bsr_AUTONEG_COMPLETE)

\* the result of link_established from the two words read
LAN87xxA_established(bsr, ssr) ==
    ~(~Contains(bsr, Bsr_LINK_STATUS) \/ ~Contains(bsr, Bsr_AUTONEG_COMPLETE)
      \/ BitAnd(ssr, PHY_REG_SSR_ANDONE) = 0)

LinkEstablishedCall(c, name) ==
    /\ name \in {"link_established", "block_until_link"}
    /\ Begin(c, [NoArgs EXCEPT !.name = name], NoLoc)
    /\ pc' = [pc EXCEPT ![c] = "link_1"]

\* let bsr = self.bsr().  The log keeps the reads of the first MaxLinkPolls calls
\* of link_established and those of the latest one.
Link1(c) ==
    /\ pc[c] = "link_1"
    /\ DevReadEffect(Bsr_ADDRESS)
    /\ LET entry == <<"r", Bsr_ADDRESS, DevRead(Bsr_ADDRESS)>>
       IN  log' = IF hist[c].polls < MaxLinkPolls
                  THEN [log EXCEPT ![c] = Append(@, entry)]
                  ELSE [log EXCEPT ![c][Len(log[c]) - 1] = entry]
    /\ loc' = [loc EXCEPT ![c].bsr = Bsr_from_bits_truncate(DevRead(Bsr_ADDRESS))]
    /\ pc' = [pc EXCEPT ![c] = "link_2"]
    /\ UNCHANGED <<args, ret, hist, calls>>

\* let ssr = self.read(PHY_REG_SSR) and the result; block_until_link calls
\* link_established again while it is false
Link2(c) ==
    /\ pc[c] = "link_2"
    /\ DevReadEffect(PHY_REG_SSR)
    /\ LET entry == <<"r", PHY_REG_SSR, DevRead(PHY_REG_SSR)>>
           established == LAN87xxA_established(loc[c].bsr, DevRead(PHY_REG_SSR))
       IN  /\ log' = IF hist[c].polls < MaxLinkPolls
                     THEN [log EXCEPT ![c] = Append(@, entry)]
                     ELSE [log EXCEPT ![c][Len(log[c])] = entry]
           /\ IF args[c].name = "link_established"
              THEN /\ ret' = [ret EXCEPT ![c] = <<established>>]
                   /\ pc' = [pc EXCEPT ![c] = "done"]
              ELSE /\ UNCHANGED ret
                   /\ pc' = [pc EXCEPT ![c] = IF established THEN "done" ELSE "link_1"]
    /\ hist' = [hist EXCEPT ![c].polls = IF @ < MaxLinkPolls THEN @ + 1 ELSE @,
                            ![c].tick = 1 - @]
    /\ UNCHANGED <<args, loc, calls>>

-----------------------------------------------------------------------------
(* lib.rs: the conversions between the enums and the capability word, and   *)
(* PhyStatus::best_autoneg_ad, applied to an input the caller holds         *)

PhyStatus ==
    [base100_t4 : BOOLEAN, fd_100base_x : BOOLEAN, hd_100base_x : BOOLEAN,
     fd_10mbps : BOOLEAN, hd_10mbps : BOOLEAN, extended_status : BOOLEAN,
     unidirectional : BOOLEAN, preamble_suppression : BOOLEAN,
     autonegotiation : BOOLEAN, extended_caps : BOOLEAN]

Mut_best_autoneg_ad_duplex_swapped(status) ==
    [AutoNegotiationAdvertisement_default EXCEPT
        !.base100_t4 = status.base100_t4,
        !.fd_100base_tx = status.hd_100base_x,
        !.hd_100base_tx = status.fd_100base_x,
        !.fd_10base_t = status.hd_10mbps,
        !.hd_10base_t = status.fd_10mbps]

\* PhyStatus::best_autoneg_ad: the default advertisement with a technology set
\* for each capability the status has
PhyStatus_best_autoneg_ad(status) ==
    LET ad0 == AutoNegotiationAdvertisement_default
        ad1 == IF status.base100_t4 THEN [ad0 EXCEPT !.base100_t4 = TRUE] ELSE ad0
        ad2 == IF status.fd_100base_x THEN [ad1 EXCEPT !.fd_100base_tx = TRUE] ELSE ad1
        ad3 == IF status.hd_100base_x THEN [ad2 EXCEPT !.hd_100base_tx = TRUE] ELSE ad2
        ad4 == IF status.fd_10mbps THEN [ad3 EXCEPT !.fd_10base_t = TRUE] ELSE ad3
    IN  IF status.hd_10mbps THEN [ad4 EXCEPT !.hd_10base_t = TRUE] ELSE ad4

\* let ana: AutoNegCap = selector_field.into()
SelectorEncode(c) ==
    /\ pc[c] = "selector_encode"
    /\ loc' = [loc EXCEPT ![c].ana = AutoNegCap_from_SelectorField(args[c].sf)]
    /\ pc' = [pc EXCEPT ![c] = "selector_decode"]
    /\ UNCHANGED <<phyVars, args, ret, log, hist, calls>>

\* let selector_field: SelectorField = ana.into()
SelectorDecode(c) ==
    /\ pc[c] = "selector_decode"
    /\ IF SelectorField_from(loc[c].ana) = "panic"
       THEN /\ pc' = [pc EXCEPT ![c] = "panicked"]
            /\ UNCHANGED ret
       ELSE /\ pc' = [pc EXCEPT ![c] = "done"]
            /\ ret' = [ret EXCEPT ![c] = <<SelectorField_from(loc[c].ana)>>]
    /\ UNCHANGED <<phyVars, args, loc, log, hist, calls>>

\* let ana: AutoNegCap = pause.into()
PauseEncode(c) ==
    /\ pc[c] = "pause_encode"
    /\ loc' = [loc EXCEPT ![c].ana = AutoNegCap_from_Pause(args[c].pause)]
    /\ pc' = [pc EXCEPT ![c] = "pause_decode"]
    /\ UNCHANGED <<phyVars, args, ret, log, hist, calls>>

\* let pause: Pause = ana.into()
PauseDecode(c) ==
    /\ pc[c] = "pause_decode"
    /\ ret' = [ret EXCEPT ![c] = <<Pause_from(loc[c].ana)>>]
    /\ pc' = [pc EXCEPT ![c] = "done"]
    /\ UNCHANGED <<phyVars, args, loc, log, hist, calls>>

\* let pause: Pause = AutoNegCap::from_bits_truncate(word).into()
PauseWordDecode(c) ==
    /\ pc[c] = "pause_word_decode"
    /\ ret' = [ret EXCEPT ![c] =
                  <<Pause_from(AutoNegCap_from_bits_truncate(args[c].v))>>]
    /\ pc' = [pc EXCEPT ![c] = "pause_word_encode"]
    /\ UNCHANGED <<phyVars, args, loc, log, hist, calls>>

\* let ana: AutoNegCap = pause.into(), of the variant just decoded
PauseWordEncode(c) ==
    /\ pc[c] = "pause_word_encode"
    /\ loc' = [loc EXCEPT ![c].ana = AutoNegCap_from_Pause(ret[c][1])]
    /\ pc' = [pc EXCEPT ![c] = "done"]
    /\ UNCHANGED <<phyVars, args, ret, log, hist, calls>>

\* let ad = status.best_autoneg_ad()
BestAutonegAd(c) ==
    /\ pc[c] = "best_autoneg_ad"
    /\ ret' = [ret EXCEPT ![c] = <<PhyStatus_best_autoneg_ad(args[c].status)>>]
    /\ pc' = [pc EXCEPT ![c] = "done"]
    /\ UNCHANGED <<phyVars, args, loc, log, hist, calls>>

-----------------------------------------------------------------------------
(* Specifications *)

InitCallers ==
    /\ pc = [c \in Callers |-> "idle"]
    /\ args = [c \in Callers |-> NoArgs]
    /\ loc = [c \in Callers |-> NoLoc]
    /\ ret = [c \in Callers |-> <<>>]
    /\ log = [c \in Callers |-> <<>>]
    /\ hist = [c \in Callers |-> NoHist]
    /\ calls = 0

InitMmd ==
    /\ regs = [r \in RegNums |-> 0]
    /\ mmdAddr = [d \in ExtDevs |-> 0]
    /\ ext = [k \in ExtKeys |-> ExtReset(k)]
    /\ InitCallers

MmdSteps(c) ==
    \/ MmdRead1(c) \/ MmdRead2(c) \/ MmdRead3(c) \/ MmdRead4(c)
    \/ MmdWrite1(c) \/ MmdWrite2(c) \/ MmdWrite3(c) \/ MmdWrite4(c)

\* callers that hold the transport for the whole of an operation
NextMmd ==
    \E c \in Callers :
        \/ \E d \in DevAddrs, r \in RegAddrs :
              Exclusive(c) /\ MmdReadCall(c, d, r)
        \/ \E d \in DevAddrs, r \in RegAddrs, v \in DataVals :
              Exclusive(c) /\ MmdWriteCall(c, d, r, v)
        \/ MmdSteps(c)
        \/ Return(c)

SpecMmd == InitMmd /\ [][NextMmd]_vars

\* two callers, one MMD access each, whose transport operations interleave freely
NextMmdConc ==
    \E c \in Callers :
        \/ \E d \in DevAddrs, r \in RegAddrs : MmdReadCall(c, d, r)
        \/ \E d \in DevAddrs, r \in RegAddrs, v \in DataVals :
              MmdWriteCall(c, d, r, v)
        \/ MmdSteps(c)

SpecMmdConc == InitMmd /\ [][NextMmdConc]_vars

-----------------------------------------------------------------------------
(* The advertisement specification: one call of one caller, against a PHY   *)
(* whose status register and partner capability register hold sampled words *)

\* how many of the sampled upper parts (bits 5-15) the partner word takes
NumPartnerHigh == 3

PartnerHighSample == <<0, 480, 65504, 1280, 2048>>

\* the status words: every combination of the bits the advertisement reads
BsrVals == {caps + 2048 * tech : caps \in {0, 1}, tech \in 0..31}

\* the partner words: every 5-bit selector under each sampled upper part
PartnerWords ==
    {sel + PartnerHighSample[i] : sel \in 0..31, i \in 1..NumPartnerHigh}

InitRegs(b, p) ==
    /\ regs = [r \in RegNums |-> IF r = Bsr_ADDRESS THEN b
                                 ELSE IF r = AutoNegCap_PARTNER_CAP_ADDRESS
                                 THEN p ELSE 0]
    /\ mmdAddr = [d \in ExtDevs |-> 0]
    /\ ext = [k \in ExtKeys |-> ExtReset(k)]
    /\ InitCallers

InitAd == \E b \in BsrVals : InitRegs(b, 0)

NextAd ==
    \/ \E ad \in AutoNegotiationAdvertisement : SetAdCall(1, ad)
    \/ SetAd1(1)
    \/ SetAd2(1)

SpecAd == InitAd /\ [][NextAd]_vars

InitPartner == \E b \in {0, 1}, p \in PartnerWords : InitRegs(b, p)

NextPartner ==
    \/ PartnerCapsCall(1)
    \/ PartnerCaps1(1)

SpecPartner == InitPartner /\ [][NextPartner]_vars

-----------------------------------------------------------------------------
(* The conversion specification: the caller holds one input, drawn at the   *)
(* start, and applies the conversions to it                                 *)

\* how many of the sampled settings of the other 14 bits a pause word takes
NumPauseOther == 3

PauseOtherSample == <<0, 65439, 1, 384, 2049>>

\* capability words: each combination of the two pause bits under each
\* sampled setting of the other bits
PauseWords ==
    {pz * AutoNegCap_ASSYMETRIC_PAUSE + PauseOtherSample[i] :
        pz \in 0..3, i \in 1..NumPauseOther}

ConvInputs ==
    {[NoArgs EXCEPT !.name = "selector", !.sf = sf] : sf \in SelectorField}
    \cup {[NoArgs EXCEPT !.name = "pause", !.pause = p] : p \in Pause}
    \cup {[NoArgs EXCEPT !.name = "pause_word", !.v = w] : w \in PauseWords}
    \cup {[NoArgs EXCEPT !.name = "best_autoneg_ad", !.status = st] :
             st \in PhyStatus}

ConvEntry(name) ==
    CASE name = "selector" -> "selector_encode"
      [] name = "pause" -> "pause_encode"
      [] name = "pause_word" -> "pause_word_decode"
      [] name = "best_autoneg_ad" -> "best_autoneg_ad"

InitConv ==
    /\ regs = [r \in RegNums |-> 0]
    /\ mmdAddr = [d \in ExtDevs |-> 0]
    /\ ext = [k \in ExtKeys |-> ExtReset(k)]
    /\ \E a \in ConvInputs :
          /\ args = [c \in Callers |-> IF c = 1 THEN a ELSE NoArgs]
          /\ pc = [c \in Callers |-> IF c = 1 THEN ConvEntry(a.name) ELSE "idle"]
    /\ loc = [c \in Callers |-> NoLoc]
    /\ ret = [c \in Callers |-> <<>>]
    /\ log = [c \in Callers |-> <<>>]
    /\ hist = [c \in Callers |-> NoHist]
    /\ calls = 0

NextConv ==
    \/ SelectorEncode(1)
    \/ SelectorDecode(1)
    \/ PauseEncode(1)
    \/ PauseDecode(1)
    \/ PauseWordDecode(1)
    \/ PauseWordEncode(1)
    \/ BestAutonegAd(1)

SpecConv == InitConv /\ [][NextConv]_vars

-----------------------------------------------------------------------------
(* The Control register specifications: one call of one caller, against a   *)
(* PHY whose Control register holds a sampled word                          *)

\* how many of the sampled settings of the bits other than the speed
\* selection the Control register takes
NumBcrOther == 4

BcrOtherSample == <<0, 57279, 31, 21781, 35466, 32768>>

\* Control words: each combination of the two speed selection bits under
\* each sampled setting of the other bits
BcrVals ==
    {msb * Bcr_SPEED_SEL_MSB + lsb * Bcr_SPEED_SEL_LSB + BcrOtherSample[i] :
        msb \in {0, 1}, lsb \in {0, 1}, i \in 1..NumBcrOther}

InitBcr ==
    /\ \E w \in BcrVals : regs = [r \in RegNums |-> IF r = Bcr_ADDRESS THEN w ELSE 0]
    /\ mmdAddr = [d \in ExtDevs |-> 0]
    /\ ext = [k \in ExtKeys |-> ExtReset(k)]
    /\ InitCallers

NextBcr ==
    \/ \E name \in BcrFlagSetters, on \in BOOLEAN :
          ModifyBcrCall(1, name, on, "Mpbs10")
    \/ \E name \in {"restart_autonegotiation", "reset"} :
          ModifyBcrCall(1, name, FALSE, "Mpbs10")
    \/ \E link_speed \in LinkSpeed : ModifyBcrCall(1, "set_link_speed", FALSE, link_speed)
    \/ ModifyBcr1(1)
    \/ ModifyBcr2(1)
    \/ LinkSpeedCall(1)
    \/ LinkSpeed1(1)

SpecBcr == InitBcr /\ [][NextBcr]_vars

\* blocking_reset against a PHY that completes the reset at a time of its own
NextReset ==
    \/ ModifyBcrCall(1, "blocking_reset", FALSE, "Mpbs10")
    \/ ModifyBcr1(1)
    \/ ModifyBcr2(1)
    \/ ResetPoll(1)
    \/ PhyResetDone

SpecReset == InitBcr /\ [][NextReset]_vars

\* the caller's thread keeps running; when the PHY completes the reset, or
\* whether it does, is not the driver's to say
SpecResetLive ==
    /\ InitBcr
    /\ [][NextReset]_vars
    /\ WF_vars(ModifyBcr1(1) \/ ModifyBcr2(1) \/ ResetPoll(1))

-----------------------------------------------------------------------------
(* The extended status specification: one call of one caller, against a PHY *)
(* whose status and extended status registers hold sampled words            *)

\* how many of the sampled settings of the other bits each register takes
NumEsrOther == 2

BsrOtherSample == <<0, 65279, 30721, 1>>
EsrLowSample == <<0, 4095, 1365, 2048>>

\* status words: the extended-status bit clear and set, under each sampled
\* setting of the other bits
BsrExtVals ==
    {x * Bsr_EXTENDED_STATUS + BsrOtherSample[i] : x \in {0, 1}, i \in 1..NumEsrOther}

\* extended status words: each combination of bits 12-15 over each sampled
\* setting of bits 0-11
EsrVals == {4096 * hi + EsrLowSample[i] : hi \in 0..15, i \in 1..NumEsrOther}

InitEsr ==
    /\ \E b \in BsrExtVals, x \in EsrVals :
          regs = [r \in RegNums |-> IF r = Bsr_ADDRESS THEN b
                                    ELSE IF r = Esr_ADDRESS THEN x ELSE 0]
    /\ mmdAddr = [d \in ExtDevs |-> 0]
    /\ ext = [k \in ExtKeys |-> ExtReset(k)]
    /\ InitCallers

NextEsr ==
    \/ \E name \in {"esr", "extended_status"} : EsrCall(1, name)
    \/ Esr1(1)
    \/ Esr2(1)

SpecEsr == InitEsr /\ [][NextEsr]_vars

-----------------------------------------------------------------------------
(* The identifier specification: one call of phy_ident, against a PHY whose *)
(* status and identifier registers hold sampled words                       *)

\* how many of the sampled words each identifier register takes
NumIdent == 4

IdentSample == <<0, 65535, 32768, 7, 4660, 49200>>
IdentVals == {IdentSample[i] : i \in 1..NumIdent}

\* status words: the extended-capabilities bit clear and set, under two
\* settings of the other bits
BsrCapsVals == {x + o : x \in {0, 1}, o \in {0, 65534}}

InitIdent ==
    /\ \E b \in BsrCapsVals, m \in IdentVals, l \in IdentVals :
          regs = [r \in RegNums |-> IF r = Bsr_ADDRESS THEN b
                                    ELSE IF r = 2 THEN m
                                    ELSE IF r = 3 THEN l ELSE 0]
    /\ mmdAddr = [d \in ExtDevs |-> 0]
    /\ ext = [k \in ExtKeys |-> ExtReset(k)]
    /\ InitCallers

NextIdent ==
    \/ PhyIdentCall(1)
    \/ PhyIdent1(1)
    \/ PhyIdent2(1)
    \/ PhyIdent3(1)

SpecIdent == InitIdent /\ [][NextIdent]_vars

-----------------------------------------------------------------------------
(* The next page specification: one caller makes a NextPage from a sampled  *)
(* expansion word and sets its data                                         *)

\* how many of the sampled words the next page registers take
NumPage == 3
\* how many of the sampled default locations the caller passes
NumDefault == 2

PageSample == <<0, 64853, 2047, 43008, 65535>>
DefaultSample == <<7, 8, 5, 31>>

PageVals == {PageSample[i] : i \in 1..NumPage}
DefaultLocs == {DefaultSample[i] : i \in 1..NumDefault}

\* expansion words: each combination of the two location bits under two
\* settings of the other flags
AneVals == {32 * loc2 + o : loc2 \in 0..3, o \in {0, 31}}

\* registers 5, 7 and 8 hold different words
InitNextPage ==
    /\ \E w \in PageVals :
          regs = [r \in RegNums |-> IF r = 5 THEN w
                                    ELSE IF r = 8 THEN (w + 4097) % Word
                                    ELSE IF r = 7 THEN (w + 8194) % Word
                                    ELSE 0]
    /\ mmdAddr = [d \in ExtDevs |-> 0]
    /\ ext = [k \in ExtKeys |-> ExtReset(k)]
    /\ InitCallers

NextNextPage ==
    \/ \E ane \in AneVals, def \in DefaultLocs : NextPageNewCall(1, ane, def)
    \/ NextPageNew1(1)
    \/ \E data \in DataVals : NextPageSetData(1, data)

SpecNextPage == InitNextPage /\ [][NextNextPage]_vars

-----------------------------------------------------------------------------
(* The query specification: two callers, one operation each and one after   *)
(* the other, against a PHY that changes its registers at any time          *)

\* how many of the sampled words the registers of the PHY take
NumQueryVals == 2

QuerySample == <<21845, 43690, 0, 65535>>
QueryVals == {QuerySample[i] : i \in 1..NumQueryVals}

\* nobody else is between the call and the return of an operation
Serial(c) == \A o \in Callers \ {c} : pc[o] \in {"idle", "done", "panicked"}

InitQuery ==
    /\ \E b \in QueryVals, s \in QueryVals :
          regs = [r \in RegNums |-> IF r = Bcr_ADDRESS THEN b
                                    ELSE IF r = Bsr_ADDRESS THEN s
                                    ELSE IF r = Ane_ADDRESS THEN 85
                                    ELSE IF r = Esr_ADDRESS THEN 40960 ELSE 0]
    /\ mmdAddr = [d \in ExtDevs |-> 0]
    /\ ext = [k \in ExtKeys |-> ExtReset(k)]
    /\ InitCallers

NextQuery ==
    \/ \E name \in QueryNames : Serial(2) /\ QueryCall(2, name)
    \/ Query1(2)
    \/ \E c \in Callers : Serial(c) /\ EsrCall(c, "esr")
    \/ \E c \in Callers : Esr1(c)
    \/ \E c \in Callers : Esr2(c)
    \/ Serial(2) /\ AneCall(2)
    \/ Ane1(2)
    \/ Ane2(2)
    \/ \E on \in BOOLEAN : Serial(1) /\ ModifyBcrCall(1, "set_loopback", on, "Mpbs10")
    \/ ModifyBcr1(1)
    \/ ModifyBcr2(1)
    \/ \E reg \in {0, 1}, v \in QueryVals : PhyChange(reg, v)

SpecQuery == InitQuery /\ [][NextQuery]_vars

\* two callers' flag setters on one PHY, interleaved at the granularity of
\* single transport operations
NextBcrConc ==
    \/ \E c \in Callers, name \in BcrFlagSetters, on \in BOOLEAN :
          ModifyBcrCall(c, name, on, "Mpbs10")
    \/ \E c \in Callers : ModifyBcr1(c)
    \/ \E c \in Callers : ModifyBcr2(c)

SpecBcrConc == InitBcr /\ [][NextBcrConc]_vars

\* set_link_speed by one caller and, once it has returned, link_speed by the
\* other
NextSpeed ==
    \/ \E link_speed \in LinkSpeed : ModifyBcrCall(1, "set_link_speed", FALSE, link_speed)
    \/ ModifyBcr1(1)
    \/ ModifyBcr2(1)
    \/ pc[1] = "done" /\ LinkSpeedCall(2)
    \/ LinkSpeed1(2)

SpecSpeed == InitBcr /\ [][NextSpeed]_vars

\* phy_init of the two variants, on a PHY whose Control register holds a
\* sampled word
NextInit ==
    \/ \E has_mmd \in BOOLEAN, restarts \in BOOLEAN : PhyInitCall(1, has_mmd, restarts)
    \/ MmdWrite1(1) \/ MmdWrite2(1) \/ MmdWrite3(1) \/ MmdWrite4(1)
    \/ PhyInitAd(1)
    \/ ModifyBcr1(1)
    \/ ModifyBcr2(1)

SpecInit == InitBcr /\ [][NextInit]_vars

\* status words with each setting of link status and autonegotiation complete,
\* special status words with each setting of the autonegotiation-done bit
LinkBsrVals == {30729 + 4 * up + 32 * complete : up \in {0, 1}, complete \in {0, 1}}
LinkSsrVals == {61439, 4096}

InitLink ==
    /\ \E b \in LinkBsrVals, s \in LinkSsrVals :
          regs = [r \in RegNums |-> IF r = Bsr_ADDRESS THEN b
                                    ELSE IF r = PHY_REG_SSR THEN s ELSE 0]
    /\ mmdAddr = [d \in ExtDevs |-> 0]
    /\ ext = [k \in ExtKeys |-> ExtReset(k)]
    /\ InitCallers

\* link_established and block_until_link against a PHY whose link comes and
\* goes at times of its own
NextLink ==
    \/ \E name \in {"link_established", "block_until_link"} : LinkEstablishedCall(1, name)
    \/ Link1(1)
    \/ Link2(1)
    \/ \E v \in LinkBsrVals : PhyChange(Bsr_ADDRESS, v)
    \/ \E v \in LinkSsrVals : PhyChange(PHY_REG_SSR, v)

SpecLink == InitLink /\ [][NextLink]_vars

\* the caller's thread keeps running; what the PHY does is not the driver's
\* to say
SpecLinkLive ==
    /\ InitLink
    /\ [][NextLink]_vars
    /\ WF_vars(Link1(1) \/ Link2(1))

-----------------------------------------------------------------------------
(* Properties of the MMD access protocol *)

IsPrefix(s, t) == Len(s) <= Len(t) /\ \A i \in 1..Len(s) : s[i] = t[i]

\* the three writes that open an access to register r of device d
MmdOpening(d, r) ==
    << <<"w", 13, d % 32>>, <<"w", 14, r>>, <<"w", 13, 16384 + (d % 32)>> >>

WritesOf(c) == {i \in 1..Len(log[c]) : log[c][i][1] = "w"}
ReadsOf(c) == {i \in 1..Len(log[c]) : log[c][i][1] = "r"}

\* C1: an MMD read issues, in this order and with nothing in between, write
\* 13 = {ADDRESS, device}, write 14 = register address, write 13 =
\* {DATA_NO_POSTINC, device}, read 14; it returns the value of that read.
C1_MmdReadSequence ==
    \A c \in Callers :
        args[c].name = "mmd_read" =>
            /\ pc[c] # "panicked"
            /\ pc[c] # "done" =>
                  /\ IsPrefix(log[c], MmdOpening(args[c].d, args[c].r))
                  /\ ret[c] = <<>>
            /\ pc[c] = "done" =>
                  /\ Len(ret[c]) = 1
                  /\ log[c] = MmdOpening(args[c].d, args[c].r)
                                 \o << <<"r", 14, ret[c][1]>> >>
                  /\ Cardinality(WritesOf(c)) = 3
                  /\ Cardinality(ReadsOf(c)) = 1

C1_Witness ==
    \E c \in Callers :
        /\ args[c].name = "mmd_read" /\ pc[c] = "done"
        /\ args[c].d = 3 /\ args[c].r = 4660
        /\ log[c][3] = <<"w", 13, 16387>>

\* C2: an MMD write issues exactly four writes and no read: 13 = {ADDRESS,
\* device}, 14 = register address, 13 = {DATA_NO_POSTINC, device}, 14 = value.
C2_MmdWriteSequence ==
    \A c \in Callers :
        args[c].name = "mmd_write" =>
            /\ pc[c] # "panicked"
            /\ ReadsOf(c) = {}
            /\ IsPrefix(log[c], MmdOpening(args[c].d, args[c].r)
                                   \o << <<"w", 14, args[c].v>> >>)
            /\ pc[c] = "done" => Len(log[c]) = 4

C2_Witness ==
    \E c \in Callers :
        /\ args[c].name = "mmd_write" /\ pc[c] = "done"
        /\ args[c].d = 3 /\ args[c].r = 32784 /\ args[c].v = 48879
        /\ log[c][4] = <<"w", 14, 48879>>

ControlWritesOf(c) ==
    {i \in 1..Len(log[c]) : log[c][i][2] = MmdAddress_CONTROL_ADDRESS}

\* C3: both control-register writes of an MMD access carry d & 0x1F in bits
\* 0-4 and zero in bits 5-13; an out-of-range d is masked and nothing fails.
C3_DeviceAddressMasked ==
    \A c \in Callers :
        args[c].name \in {"mmd_read", "mmd_write"} =>
            /\ pc[c] # "panicked"
            /\ \A i \in ControlWritesOf(c) :
                  /\ log[c][i][1] = "w"
                  /\ log[c][i][3] % 32 = args[c].d % 32
                  /\ (log[c][i][3] \div 32) % 512 = 0
            /\ pc[c] = "done" => Cardinality(ControlWritesOf(c)) = 2

C3_Witness ==
    \E c \in Callers :
        /\ args[c].name \in {"mmd_read", "mmd_write"} /\ pc[c] = "done"
        /\ args[c].d = 37
        /\ log[c][1] = <<"w", 13, 5>>
        /\ log[c][3] = <<"w", 13, 16384 + 5>>

\* the extended register an access of caller c addresses
Addressed(c) == <<args[c].d % 32, args[c].r>>

\* C4: with exclusive access, mmd_read(d, r) returns the contents of extended
\* register (d & 0x1F, r), and after mmd_write(d, r, v) that register holds v
\* and every other extended register is as it was.
C4_MmdAccessCorrect ==
    \A c \in Callers :
        pc[c] = "done" =>
            /\ args[c].name = "mmd_read" =>
                  /\ ret[c] = <<ext[Addressed(c)]>>
                  /\ ext = hist[c].ext0
            /\ args[c].name = "mmd_write" =>
                  ext = [hist[c].ext0 EXCEPT ![Addressed(c)] = args[c].v]

\* a read through the out-of-range device address returns what was written
C4_Witness ==
    \E c \in Callers :
        /\ args[c].name = "mmd_read" /\ pc[c] = "done"
        /\ args[c].d = 37 /\ args[c].r = 32784
        /\ ret[c] = <<48879>>
        /\ ExtReset(Addressed(c)) # 48879

\* C5: the transport operations of two callers' MMD accesses interleave, and
\* an access reaches another extended register than the one it addressed
\* only when a write of the other caller fell inside its sequence (the core
\* itself keeps nobody out).
C5_WrongRegisterOnlyByInterleaving ==
    \A c \in Callers :
        (pc[c] = "done" /\ hist[c].hit # <<1, Addressed(c)>>) => hist[c].intr

\* an mmd_read that returned the contents of another extended register
C5_Witness ==
    \E c \in Callers :
        /\ args[c].name = "mmd_read" /\ pc[c] = "done"
        /\ hist[c].hit[1] = 1
        /\ hist[c].hit[2] # Addressed(c)
        /\ ret[c] = <<ext[hist[c].hit[2]]>>
        /\ ret[c] # <<ext[Addressed(c)]>>

\* an mmd_write that stored its value in another extended register
C5_WitnessWrite ==
    \E c \in Callers :
        /\ args[c].name = "mmd_write" /\ pc[c] = "done"
        /\ hist[c].hit[1] = 1
        /\ hist[c].hit[2] # Addressed(c)
        /\ ext[hist[c].hit[2]] = args[c].v
        /\ ext[Addressed(c)] = hist[c].ext0[Addressed(c)]
        /\ ext[Addressed(c)] # args[c].v

-----------------------------------------------------------------------------
(* Properties of the advertisement translation *)

IsSetAd(c) == args[c].name = "set_autonegotiation_advertisement"

\* C6: set_autonegotiation_advertisement writes register 4 exactly once when
\* the status reports extended capabilities, and issues no write when it
\* does not.
C6_WritesOnlyWithExtendedCaps ==
    \A c \in Callers :
        (IsSetAd(c) /\ pc[c] = "done") =>
            IF loc[c].status.extended_caps
            THEN /\ Cardinality(WritesOf(c)) = 1
                 /\ \A i \in WritesOf(c) : log[c][i][2] = 4
            ELSE WritesOf(c) = {}

\* C7: in the word written to register 4 each of the four speed/duplex bits is
\* set if and only if the advertisement requests it and the status reports
\* the matching capability.
C7_TechnologyBitsGated ==
    \A c \in Callers :
        IsSetAd(c) =>
            \A i \in WritesOf(c) :
                LET w == log[c][i][3]
                    ad == args[c].ad
                    status == loc[c].status
                IN  /\ log[c][i][2] = 4
                    /\ Contains(w, AutoNegCap_10BASET)
                          <=> (ad.hd_10base_t /\ status.hd_10mbps)
                    /\ Contains(w, AutoNegCap_10BASETFD)
                          <=> (ad.fd_10base_t /\ status.fd_10mbps)
                    /\ Contains(w, AutoNegCap_100BASETX)
                          <=> (ad.hd_100base_tx /\ status.hd_100base_x)
                    /\ Contains(w, AutoNegCap_100BASETXFD)
                          <=> (ad.fd_100base_tx /\ status.fd_100base_x)

C7_Witness ==
    \E c \in Callers :
        /\ IsSetAd(c) /\ pc[c] = "done" /\ WritesOf(c) # {}
        /\ args[c].ad.fd_100base_tx /\ ~loc[c].status.fd_100base_x
        /\ args[c].ad.hd_10base_t /\ loc[c].status.hd_10mbps
        /\ \A i \in WritesOf(c) :
              /\ ~Contains(log[c][i][3], AutoNegCap_100BASETXFD)
              /\ Contains(log[c][i][3], AutoNegCap_10BASET)

\* C8: in the word written to register 4 the 100BASE-T4 bit equals
\* ad.base100_t4, the selector bits are the encoding of ad.selector_field and
\* the pause bits are the encoding of ad.pause, whatever the status says.
C8_UngatedFieldsVerbatim ==
    \A c \in Callers :
        IsSetAd(c) =>
            \A i \in WritesOf(c) :
                LET w == log[c][i][3]
                    ad == args[c].ad
                IN  /\ Contains(w, AutoNegCap_100BASET4) <=> ad.base100_t4
                    /\ w % 32 = AutoNegCap_from_SelectorField(ad.selector_field)
                    /\ BitAnd(w, 32 + 64) = AutoNegCap_from_Pause(ad.pause)

C8_Witness ==
    \E c \in Callers :
        /\ IsSetAd(c) /\ pc[c] = "done" /\ WritesOf(c) # {}
        /\ args[c].ad.base100_t4 /\ ~loc[c].status.base100_t4
        /\ args[c].ad.selector_field = "Std1394"
        /\ args[c].ad.pause = "Symmetric"
        /\ \A i \in WritesOf(c) :
              /\ Bit(log[c][i][3], 7) = 1
              /\ log[c][i][3] % 32 = 5
              /\ Bit(log[c][i][3], 6) = 1 /\ Bit(log[c][i][3], 5) = 0

IsPartnerCaps(c) == args[c].name = "get_autonegotiation_partner_caps"

\* the selector patterns in the order of the tests
SelectorOrder ==
    << <<"Std802_3", 1>>, <<"Std802_5", 3>>, <<"Std802_9Islan16t", 2>>,
       <<"Std1394", 5>> >>

PatternSet(w, p) == \A i \in 0..4 : Bit(p, i) = 1 => Bit(w, i) = 1

Matching(w) == {i \in 1..Len(SelectorOrder) : PatternSet(w, SelectorOrder[i][2])}

First(S) == CHOOSE i \in S : \A j \in S : i <= j

\* C9: the selector decode returns the first of 802.3, 802.5, 802.9 ISLAN-16T,
\* 1394 whose pattern is set in the word; a word with the 802.3 and the 802.5
\* patterns set decodes to 802.3.
C9_SelectorFirstMatch ==
    \A c \in Callers :
        (IsPartnerCaps(c) /\ log[c] # <<>>) =>
            LET w == log[c][1][3]
            IN  Matching(w) # {} =>
                    /\ pc[c] = "done"
                    /\ ret[c][1].selector_field = SelectorOrder[First(Matching(w))][1]

C9_Witness ==
    \E c \in Callers :
        /\ IsPartnerCaps(c) /\ pc[c] = "done"
        /\ log[c][1][3] % 32 = 3
        /\ ret[c][1].selector_field = "Std802_3"

\* C10: a word whose 5-bit selector field is none of the four defined values
\* makes get_autonegotiation_partner_caps fail; it is never decoded to a
\* selector variant.
C10_UndefinedSelectorFails ==
    \A c \in Callers :
        (IsPartnerCaps(c) /\ log[c] # <<>>) =>
            (log[c][1][3] % 32 \notin {1, 2, 3, 5} => pc[c] = "panicked")

-----------------------------------------------------------------------------
(* Properties of the conversions *)

Converted(c, name) == args[c].name = name /\ pc[c] = "done"

\* C11: for each of the four SelectorField variants, encoding the variant into
\* a capability word and decoding that word returns the same variant.
C11_SelectorRoundTrip ==
    /\ args[1].name = "selector" => pc[1] # "panicked"
    /\ Converted(1, "selector") => ret[1] = <<args[1].sf>>

PauseBit(w) == Bit(w, AutoNegCap_TECH_ABILITY_OFFSET + 1)
AsymPauseBit(w) == Bit(w, AutoNegCap_TECH_ABILITY_OFFSET)

\* the table of the pause decode, on a pair of bits <<first, second>>
PauseTable(first, second) ==
    CASE first = 0 /\ second = 0 -> "NoPause"
      [] first = 1 /\ second = 0 -> "AsymmetricPartner"
      [] first = 0 /\ second = 1 -> "Symmetric"
      [] first = 1 /\ second = 1 -> "SymmetricAndAsymmetricLocal"

PauseDecoded(c) ==
    /\ args[c].name = "pause_word"
    /\ pc[c] \in {"pause_word_encode", "done"}

\* C12 as stated: the decode of a capability word follows the table on the
\* pair (pause bit, asymmetric-pause bit).
C12_PauseTableOnPauseAsym ==
    PauseDecoded(1) =>
        ret[1] = <<PauseTable(PauseBit(args[1].v), AsymPauseBit(args[1].v))>>

\* C12, amended: the decode of a capability word follows the table on the
\* pair (asymmetric-pause bit, pause bit): asymmetric-pause alone gives
\* AsymmetricPartner, pause alone gives Symmetric.
C12_PauseTableOnAsymPause ==
    PauseDecoded(1) =>
        ret[1] = <<PauseTable(AsymPauseBit(args[1].v), PauseBit(args[1].v))>>

\* a word with the pause bit alone has been decoded, among other bits
C12_Witness ==
    /\ PauseDecoded(1)
    /\ PauseBit(args[1].v) = 1 /\ AsymPauseBit(args[1].v) = 0
    /\ args[1].v # AutoNegCap_PAUSE
    /\ ret[1] = <<"Symmetric">>

\* C13: decoding the two pause bits of a word and encoding the variant back
\* reproduces the same two bits and nothing else; encoding a Pause variant
\* and decoding the word returns the same variant.
C13_PauseRoundTrip ==
    /\ Converted(1, "pause_word") =>
          loc[1].ana = BitAnd(args[1].v,
                              BitOr(AutoNegCap_PAUSE, AutoNegCap_ASSYMETRIC_PAUSE))
    /\ Converted(1, "pause") => ret[1] = <<args[1].pause>>

C13_Witness ==
    /\ Converted(1, "pause")
    /\ args[1].pause = "AsymmetricPartner"
    /\ loc[1].ana = AutoNegCap_ASSYMETRIC_PAUSE

\* C16: best_autoneg_ad copies base100_t4, fd_100base_x, hd_100base_x,
\* fd_10mbps, hd_10mbps of the status into base100_t4, fd_100base_tx,
\* hd_100base_tx, fd_10base_t, hd_10base_t, with selector field 802.3 and
\* pause None; it depends on nothing else and touches no register.
C16_BestAutonegAdProjection ==
    Converted(1, "best_autoneg_ad") =>
        /\ ret[1] = << [selector_field |-> "Std802_3",
                        hd_10base_t |-> args[1].status.hd_10mbps,
                        fd_10base_t |-> args[1].status.fd_10mbps,
                        hd_100base_tx |-> args[1].status.hd_100base_x,
                        fd_100base_tx |-> args[1].status.fd_100base_x,
                        base100_t4 |-> args[1].status.base100_t4,
                        pause |-> "NoPause"] >>
        /\ log[1] = <<>>

\* the status with only hd_10mbps and fd_10mbps gives exactly the two
\* 10BASE-T technologies
C16_Witness ==
    /\ Converted(1, "best_autoneg_ad")
    /\ args[1].status = [NoStatus EXCEPT !.hd_10mbps = TRUE, !.fd_10mbps = TRUE]
    /\ ret[1] = << [AutoNegotiationAdvertisement_default EXCEPT
                        !.hd_10base_t = TRUE, !.fd_10base_t = TRUE] >>

-----------------------------------------------------------------------------
(* Properties of the Control register operations *)

Called(c, name) == args[c].name = name /\ pc[c] = "done"

SpeedSelMSB(w) == Bit(w, 6)
SpeedSelLSB(w) == Bit(w, 13)

\* the table of the speed selection, on the pair <<MSB, LSB>>
SpeedTable(msb, lsb) ==
    CASE msb = 0 /\ lsb = 0 -> "Mpbs10"
      [] msb = 0 /\ lsb = 1 -> "Mbps100"
      [] msb = 1 /\ lsb = 0 -> "Mpbs1000"
      [] msb = 1 /\ lsb = 1 -> "Illegal"

\* C14: link_speed() returns, for every Control word, the entry of the table
\* for the word's (MSB, LSB) = (bit 6, bit 13): 10, 100, 1000 Mb/s and, for
\* (1,1), Illegal; it never fails and no other bit of the word matters.
C14_LinkSpeedDecode ==
    /\ args[1].name = "link_speed" => pc[1] # "panicked"
    /\ Called(1, "link_speed") =>
          /\ log[1] = << <<"r", 0, regs[0]>> >>
          /\ ret[1] = <<SpeedTable(SpeedSelMSB(regs[0]), SpeedSelLSB(regs[0]))>>

\* both bits set, among other bits, is reported as Illegal
C14_Witness ==
    /\ Called(1, "link_speed")
    /\ SpeedSelMSB(regs[0]) = 1 /\ SpeedSelLSB(regs[0]) = 1
    /\ regs[0] > Bcr_SPEED_SEL_MSB + Bcr_SPEED_SEL_LSB
    /\ ret[1] = <<"Illegal">>

\* C15: set_link_speed succeeds (returns after its write) for 10, 100 and 1000
\* Mb/s; set_link_speed(Illegal) fails, issues no write, and leaves the
\* registers of the PHY as they were at the call.
C15_IllegalSpeedFailsWithoutWrite ==
    args[1].name = "set_link_speed" =>
        IF args[1].link_speed = "Illegal"
        THEN /\ pc[1] \notin {"modify_bcr_2", "done"}
             /\ WritesOf(1) = {}
             /\ regs = hist[1].regs0
        ELSE /\ pc[1] # "panicked"
             /\ pc[1] = "done" => WritesOf(1) = {2}

C15_Witness ==
    /\ args[1].name = "set_link_speed"
    /\ args[1].link_speed = "Illegal"
    /\ pc[1] = "panicked"
    /\ log[1] = << <<"r", 0, regs[0]>> >>

\* a read-modify-write of the Control register has issued its write
Modified(c) ==
    /\ args[c].name \in BcrFlagSetters \cup {"restart_autonegotiation", "reset",
                                              "set_link_speed"}
    /\ pc[c] = "done"

Unassigned(w) == w % (2 ^ 5)

\* C19 as stated: the value a read-modify-write of the Control register
\* writes back has bits 0-4 equal to those of the value read.
C19_UnassignedBitsPreserved ==
    Modified(1) => Unassigned(log[1][2][3]) = Unassigned(log[1][1][3])

\* C19, amended: the value a read-modify-write of the Control register writes
\* back has bits 0-4 clear, whatever those of the value read were: the value
\* read is truncated to the named flags before it is modified.
C19_UnassignedBitsCleared ==
    Modified(1) =>
        /\ log[1][1][1] = "r" /\ log[1][2][1] = "w"
        /\ Unassigned(log[1][2][3]) = 0
        /\ regs[0] = log[1][2][3]

\* set_loopback(true) on a word with unassigned bits set
C19_Witness ==
    /\ Modified(1)
    /\ args[1].name = "set_loopback" /\ args[1].on
    /\ Unassigned(log[1][1][3]) # 0
    /\ regs[0] = Insert(log[1][1][3] - Unassigned(log[1][1][3]), Bcr_LOOPBACK)

-----------------------------------------------------------------------------
(* Properties of blocking_reset *)

IsBlockingReset(c) == args[c].name = "blocking_reset"

ResetBit(w) == Bit(w, 15)

\* the positions in the log of the reads the loop of blocking_reset has made
PollsOf(c) == {i \in 1..Len(log[c]) : i > 2}

\* C17: blocking_reset reads the Control register, writes it back with the
\* Reset bit set, and from then on only reads the Control register; while it
\* has not returned every read of the loop has reported Reset = 1, and when
\* it has returned the last read of the loop, and no earlier one, reported
\* Reset = 0.
C17_BlockingResetPolls ==
    IsBlockingReset(1) =>
        /\ \A i \in 1..Len(log[1]) : log[1][i][2] = 0
        /\ WritesOf(1) \subseteq {2}
        /\ Len(log[1]) >= 1 => log[1][1][1] = "r"
        /\ Len(log[1]) >= 2 =>
              /\ log[1][2][1] = "w"
              /\ ResetBit(log[1][2][3]) = 1
        /\ pc[1] = "reset_poll" =>
              /\ Len(log[1]) >= 2
              /\ \A i \in PollsOf(1) : ResetBit(log[1][i][3]) = 1
        /\ pc[1] = "done" =>
              /\ Len(log[1]) >= 3
              /\ ResetBit(log[1][Len(log[1])][3]) = 0
              /\ \A i \in PollsOf(1) \ {Len(log[1])} : ResetBit(log[1][i][3]) = 1

\* it has returned at the third read of the loop, after two that reported
\* Reset = 1
C17_Witness ==
    /\ IsBlockingReset(1)
    /\ pc[1] = "done"
    /\ hist[1].polls = 3
    /\ Len(log[1]) = 5

Polling(c) == IsBlockingReset(c) /\ pc[c] = "reset_poll"

\* C18: once the PHY has cleared the Reset bit blocking_reset eventually
\* returns; it returns only when the PHY has cleared the bit; and as long as
\* it has not returned it reads the Control register again, without end and
\* without a bound on the number of reads.
C18_ReturnsIffPhyClears ==
    /\ (Polling(1) /\ ResetBit(regs[0]) = 0) ~> (pc[1] = "done")
    /\ [](IsBlockingReset(1) /\ pc[1] = "done" => ResetBit(regs[0]) = 0)
    /\ (Polling(1) /\ hist[1].tick = 0) ~> (hist[1].tick = 1 \/ pc[1] = "done")
    /\ (Polling(1) /\ hist[1].tick = 1) ~> (hist[1].tick = 0 \/ pc[1] = "done")

\* the loop has gone round more often than the log can tell apart, and the
\* PHY has not cleared the bit
C18_Witness ==
    /\ Polling(1)
    /\ hist[1].polls = MaxPolls
    /\ hist[1].tick = (MaxPolls + 1) % 2
    /\ ResetBit(regs[0]) = 1

-----------------------------------------------------------------------------
(* Properties of the extended status *)

IsEsr(c) == args[c].name \in {"esr", "extended_status"}

\* C20: esr() and extended_status() never fail; with bit 8 of the status
\* register clear they return None after the one read of register 1 and no
\* read of register 15; with it set they read register 15 and return Some of
\* its bits 12-15, as flags for esr() and for extended_status() as
\* fd_1000base_x, hd_1000base_x, fd_1000base_t, hd_1000base_t = bits 15, 14,
\* 13, 12.
C20_ExtendedStatusGated ==
    IsEsr(1) =>
        /\ pc[1] # "panicked"
        /\ pc[1] = "done" =>
              IF Bit(regs[1], 8) = 0
              THEN /\ ret[1] = <<None>>
                   /\ log[1] = << <<"r", 1, regs[1]>> >>
              ELSE /\ log[1] = << <<"r", 1, regs[1]>>, <<"r", 15, regs[15]>> >>
                   /\ args[1].name = "esr" =>
                         ret[1] = <<Some(regs[15] - (regs[15] % 4096))>>
                   /\ args[1].name = "extended_status" =>
                         ret[1] = <<Some([fd_1000base_x |-> Bit(regs[15], 15) = 1,
                                          hd_1000base_x |-> Bit(regs[15], 14) = 1,
                                          fd_1000base_t |-> Bit(regs[15], 13) = 1,
                                          hd_1000base_t |-> Bit(regs[15], 12) = 1])>>

\* extended status present, with bits 15 and 12 of register 15 set
C20_Witness ==
    /\ Called(1, "extended_status")
    /\ Bit(regs[1], 8) = 1
    /\ ret[1] = <<Some([fd_1000base_x |-> TRUE, hd_1000base_x |-> FALSE,
                        fd_1000base_t |-> FALSE, hd_1000base_t |-> TRUE])>>

\* extended status absent: None, and register 15 not read
C20_WitnessAbsent ==
    /\ Called(1, "esr")
    /\ Bit(regs[1], 8) = 0
    /\ regs[15] # 0
    /\ ret[1] = <<None>>

-----------------------------------------------------------------------------
(* Properties of the identifier and of the next page *)

\* C21: phy_ident() never fails; with bit 0 of the status register clear it
\* returns None after the one read of register 1; with it set it reads
\* register 2 and then register 3 and returns Some of the 32-bit value whose
\* upper half is register 2 and whose lower half is register 3.
C21_PhyIdent ==
    args[1].name = "phy_ident" =>
        /\ pc[1] # "panicked"
        /\ pc[1] = "done" =>
              IF Bit(regs[1], 0) = 0
              THEN /\ ret[1] = <<None>>
                   /\ log[1] = << <<"r", 1, regs[1]>> >>
              ELSE /\ log[1] = << <<"r", 1, regs[1]>>, <<"r", 2, regs[2]>>,
                                  <<"r", 3, regs[3]>> >>
                   /\ ret[1] = <<Some(<<regs[2], regs[3]>>)>>

\* an identifier whose halves differ and whose upper half has its top bit set
C21_Witness ==
    /\ Called(1, "phy_ident")
    /\ Bit(regs[1], 0) = 1
    /\ regs[2] >= 32768 /\ regs[2] # regs[3]
    /\ ret[1] = <<Some(<<regs[2], regs[3]>>)>>

IsNextPage(c) == args[c].name = "next_page_new" /\ pc[c] = "next_page"

\* the table of the next page location
NextPageTable(able, location, default) ==
    IF able = 1 THEN (IF location = 1 THEN 8 ELSE 5) ELSE default

\* C22: NextPage::new issues one read, of register 8 when bits 6 and 5 of the
\* expansion word are set, of register 5 when bit 6 is set and bit 5 clear,
\* and of the caller's default when bit 6 is clear, whatever bit 5 holds; the
\* page it makes is the word read.
C22_NextPageLocation ==
    IsNextPage(1) =>
        LET where == NextPageTable(Bit(args[1].ane, 6), Bit(args[1].ane, 5),
                                   args[1].default_next_page)
        IN  /\ log[1] = << <<"r", where, regs[where]>> >>
            /\ loc[1].datas = <<>> => loc[1].page = regs[where]

\* location bit set but not valid: the default is read, not register 8
C22_Witness ==
    /\ IsNextPage(1)
    /\ Bit(args[1].ane, 6) = 0 /\ Bit(args[1].ane, 5) = 1
    /\ args[1].default_next_page = 7
    /\ log[1] = << <<"r", 7, regs[7]>> >>

\* C30: after set_data(d) data() returns d & 0x7FF, whatever the page held
\* before, and bits 11-15 of the page are as before; so after set_data(d1)
\* and set_data(d2) data() returns d2 & 0x7FF.
C30_SetDataReplaces ==
    (IsNextPage(1) /\ loc[1].datas # <<>>) =>
        /\ NextPage_data(loc[1].page) = loc[1].datas[Len(loc[1].datas)] % 2048
        /\ loc[1].page \div 2048 = log[1][1][3] \div 2048

-----------------------------------------------------------------------------
(* Properties of the queries *)

\* the register and the bit a query of the dynamic state reports on
DynamicBit(name) ==
    CASE name = "is_resetting" -> <<0, 15>>
      [] name = "loopback" -> <<0, 14>>
      [] name = "autonegotiation" -> <<0, 12>>
      [] name = "powered_down" -> <<0, 11>>
      [] name = "isolated" -> <<0, 10>>
      [] name = "is_full_duplex" -> <<0, 8>>
      [] name = "collision_test" -> <<0, 7>>
      [] name = "unidirectional" -> <<0, 5>>
      [] name = "autoneg_completed" -> <<1, 5>>
      [] name = "phy_link_up" -> <<1, 2>>

\* C23: the step in which phy_link_up, autoneg_completed, is_resetting or a
\* getter of a Control flag returns is one transport read of its register,
\* the only operation of the call, and the value returned is the bit the
\* register holds in that step, whatever the PHY and the driver did before.
C23_QueriesReadFresh ==
    [][\A c \in Callers :
          (pc[c] = "query_1" /\ pc'[c] = "done"
              /\ args[c].name \in BcrGetters \cup BsrGetters) =>
             LET at == DynamicBit(args[c].name)
             IN  /\ log[c] = <<>>
                 /\ log'[c] = << <<"r", at[1], regs[at[1]]>> >>
                 /\ ret'[c] = <<Bit(regs[at[1]], at[2]) = 1>>
                 /\ regs' = regs]_vars

\* the driver set the loopback bit, which was clear, and the query that
\* follows reports it set; and a query reports a bit the PHY changed after
\* the call of the query
C23_Witness ==
    /\ Called(1, "set_loopback") /\ args[1].on
    /\ Bit(log[1][1][3], 14) = 0
    /\ Called(2, "loopback")
    /\ ret[2] = <<TRUE>>

C23_WitnessPhyChange ==
    /\ Called(2, "phy_link_up")
    /\ Bit(hist[2].regs0[1], 2) = 0
    /\ ret[2] = <<TRUE>>

ReadOnce == QueryNames
ReadGated == {"esr", "ane"}

\* C24 as stated: none of the reads of a register model fails, and two
\* calls of the same one issue the same number of transport reads, whatever
\* the words the transport returned to each.
C24_ReadCountIndependent ==
    /\ \A c \in Callers : args[c].name \in ReadOnce \cup ReadGated => pc[c] # "panicked"
    /\ \A c1, c2 \in Callers :
          (/\ args[c1].name \in ReadOnce \cup ReadGated
           /\ args[c1].name = args[c2].name
           /\ pc[c1] = "done" /\ pc[c2] = "done") => Len(log[c1]) = Len(log[c2])

\* the bit of the status register that esr() and ane() look at
GateBit(name) == IF name = "esr" THEN 8 ELSE 0

\* C24, amended: none of the reads of a register model fails or reads a
\* register twice; bcr(), bsr(), status() and the boolean accessors issue
\* one transport read whatever word it returns; esr() and ane() issue one
\* read of register 1 and, exactly when its extended-status bit (esr) or
\* extended-capabilities bit (ane) is set, one read of register 15 or 6.
C24_ReadsTotal ==
    \A c \in Callers :
        /\ args[c].name \in ReadOnce \cup ReadGated => pc[c] # "panicked"
        /\ (args[c].name \in ReadOnce /\ pc[c] = "done") =>
              /\ Len(log[c]) = 1
              /\ log[c][1][1] = "r"
        /\ (args[c].name \in ReadGated /\ pc[c] = "done") =>
              /\ log[c][1][1] = "r" /\ log[c][1][2] = 1
              /\ IF Bit(log[c][1][3], GateBit(args[c].name)) = 0
                 THEN Len(log[c]) = 1 /\ ret[c] = <<None>>
                 ELSE /\ Len(log[c]) = 2
                      /\ log[c][2][1] = "r"
                      /\ log[c][2][2] = (IF args[c].name = "esr" THEN 15 ELSE 6)
                      /\ ret[c] # <<None>>

\* two calls of esr(), one of one read and one of two
C24_Witness ==
    /\ Called(1, "esr") /\ Called(2, "esr")
    /\ Len(log[1]) = 1 /\ Len(log[2]) = 2

-----------------------------------------------------------------------------
(* Properties of the mutators of the Control register *)

\* the bit a mutator targets
TargetBit(name) ==
    CASE name = "reset" -> 15
      [] name = "set_loopback" -> 14
      [] name = "set_autonegotiation" -> 12
      [] name = "set_powered_down" -> 11
      [] name = "set_isolated" -> 10
      [] name = "restart_autonegotiation" -> 9
      [] name = "set_full_duplex" -> 8
      [] name = "set_collision_test" -> 7
      [] name = "set_unidirectional" -> 5

\* one of the nine mutators has returned
Mutated(c) ==
    /\ args[c].name \in BcrFlagSetters \cup {"restart_autonegotiation", "reset"}
    /\ pc[c] = "done"

ReadThenWrite(c) ==
    /\ Len(log[c]) = 2
    /\ log[c][1][1] = "r" /\ log[c][1][2] = 0
    /\ log[c][2][1] = "w" /\ log[c][2][2] = 0

\* C25 as stated: a mutator issues one read of register 0 and then one write
\* of register 0, and the word written differs from the word read in no bit
\* but the one the mutator targets.
C25_OnlyTargetBitDiffers ==
    Mutated(1) =>
        /\ ReadThenWrite(1)
        /\ \A i \in 0..15 :
              i # TargetBit(args[1].name) =>
                 Bit(log[1][2][3], i) = Bit(log[1][1][3], i)

\* C25, amended: a mutator issues one read of register 0 and then one write
\* of register 0; among the named bits (5-15) the word written differs from
\* the word read in no bit but the one the mutator targets, which is written
\* as the mutator says; the unassigned bits 0-4 are written as 0.
C25_OnlyTargetNamedBitDiffers ==
    Mutated(1) =>
        /\ ReadThenWrite(1)
        /\ \A i \in 5..15 :
              i # TargetBit(args[1].name) =>
                 Bit(log[1][2][3], i) = Bit(log[1][1][3], i)
        /\ Bit(log[1][2][3], TargetBit(args[1].name)) =
              (IF args[1].name \in BcrFlagSetters /\ ~args[1].on THEN 0 ELSE 1)
        /\ \A i \in 0..4 : Bit(log[1][2][3], i) = 0

\* set_isolated(false) on a word with the isolate bit, the Reset bit, both
\* speed bits and unassigned bits set
C25_Witness ==
    /\ Mutated(1)
    /\ args[1].name = "set_isolated" /\ ~args[1].on
    /\ Bit(log[1][1][3], 10) = 1 /\ Bit(log[1][1][3], 15) = 1
    /\ Bit(log[1][1][3], 13) = 1 /\ Bit(log[1][1][3], 6) = 1
    /\ Unassigned(log[1][1][3]) # 0
    /\ regs[0] = log[1][1][3] - Unassigned(log[1][1][3]) - 1024

\* both callers' setters have returned, and they target different bits
BothSet ==
    /\ \A c \in Callers : args[c].name \in BcrFlagSetters /\ pc[c] = "done"
    /\ TargetBit(args[1].name) # TargetBit(args[2].name)

\* no write of the other caller fell between the read and the write of c
Uninterrupted(c) == ~hist[c].intr

\* C26: when two callers' flag setters on different bits of the same PHY each
\* run from the read to the write with no write of the other in between, the
\* Control register ends with both targeted bits as the two callers set them.
C26_CriticalSectionsKeepBoth ==
    (BothSet /\ Uninterrupted(1) /\ Uninterrupted(2)) =>
        \A c \in Callers :
            Bit(regs[0], TargetBit(args[c].name)) = (IF args[c].on THEN 1 ELSE 0)

\* the lost update: set_loopback(true) and set_isolated(true) have both
\* returned, interleaved, and the register has only one of the two bits set
C26_Witness ==
    /\ Called(1, "set_loopback") /\ args[1].on
    /\ Called(2, "set_isolated") /\ args[2].on
    /\ Bit(regs[0], 14) + Bit(regs[0], 10) = 1

\* the two setters have both returned, each as a critical section
C26_WitnessSerial ==
    /\ Called(1, "set_loopback") /\ args[1].on
    /\ Called(2, "set_isolated") /\ args[2].on
    /\ Uninterrupted(1) /\ Uninterrupted(2)
    /\ Bit(hist[1].regs0[0], 14) + Bit(hist[1].regs0[0], 10) = 0
    /\ Bit(regs[0], 14) + Bit(regs[0], 10) = 2

LegalSpeeds == {"Mpbs10", "Mbps100", "Mpbs1000"}

\* C27: for every prior Control word and every legal speed s, set_link_speed(s)
\* reads register 0 once and writes it once, the word written has (MSB, LSB)
\* equal to the table entry of s whatever the speed bits read were, every other
\* named bit (5-15 but 6 and 13) is as read, and a link_speed() that follows
\* returns s.
C27_SetLinkSpeed ==
    /\ (args[1].name = "set_link_speed" /\ args[1].link_speed \in LegalSpeeds) =>
           pc[1] # "panicked"
    /\ (Called(1, "set_link_speed") /\ args[1].link_speed \in LegalSpeeds) =>
          /\ ReadThenWrite(1)
          /\ SpeedTable(SpeedSelMSB(log[1][2][3]), SpeedSelLSB(log[1][2][3]))
                = args[1].link_speed
          /\ \A i \in 5..15 :
                i \notin {6, 13} => Bit(log[1][2][3], i) = Bit(log[1][1][3], i)
          /\ regs[0] = log[1][2][3]
          /\ Called(2, "link_speed") => ret[2] = <<args[1].link_speed>>

\* 10 Mb/s was set on a PHY whose speed bits were both set, and link_speed()
\* has returned after it
C27_Witness ==
    /\ Called(1, "set_link_speed") /\ args[1].link_speed = "Mpbs10"
    /\ SpeedSelMSB(log[1][1][3]) = 1 /\ SpeedSelLSB(log[1][1][3]) = 1
    /\ Bit(log[1][1][3], 14) = 1
    /\ Called(2, "link_speed")

-----------------------------------------------------------------------------
(* Properties of the LAN87xxA PHYs *)

\* the advertisement word of 10BASE-T half and full, 100BASE-TX half and
\* full, selector 802.3, no 100BASE-T4 and no pause
BestAdvertisementWord == 2 ^ 5 + 2 ^ 6 + 2 ^ 7 + 2 ^ 8 + 1

\* the four writes that clear extended register 0x8010 of device 3
WucsrClear == << <<"w", 13, 3>>, <<"w", 14, PHY_REG_WUCSR>>,
                <<"w", 13, 16384 + 3>>, <<"w", 14, 0>> >>

\* the MMD part of phy_init: with MMD the four writes come first and the
\* extended register ends as zero, without MMD registers 13 and 14 are not
\* written
InitMmdPart ==
    Called(1, "phy_init") =>
        IF args[1].has_mmd
        THEN /\ Len(log[1]) >= 4
             /\ SubSeq(log[1], 1, 4) = WucsrClear
             /\ ext[<<3, PHY_REG_WUCSR>>] = 0
        ELSE \A i \in WritesOf(1) : log[1][i][2] \notin {13, 14}

\* C28: when phy_init has returned, register 4 has been written with the best
\* supported advertisement and holds it; with MMD the four writes that clear
\* extended register 0x8010 of device 3 precede that write, and without MMD
\* no write of register 13 or 14 is issued.
C28_InitWritesAdvertisement ==
    Called(1, "phy_init") =>
        /\ \E i \in WritesOf(1) :
              /\ log[1][i] = <<"w", 4, BestAdvertisementWord>>
              /\ args[1].has_mmd => i > 4
        /\ regs[4] = BestAdvertisementWord
        /\ InitMmdPart

\* what phy_init does: no write of register 4 at all
InitLeavesAdvertisement ==
    Called(1, "phy_init") =>
        /\ \A i \in WritesOf(1) : log[1][i][2] # 4
        /\ regs[4] = hist[1].regs0[4]

IsLinkEstablished(c) == args[c].name = "link_established"
IsBlockUntilLink(c) == args[c].name = "block_until_link"

\* the three bits in the words of the k-th call of link_established the log
\* holds: the entries 2k - 1 (register 1) and 2k (register 31)
EstablishedAt(c, k) ==
    /\ Bit(log[c][2 * k - 1][3], 2) = 1
    /\ Bit(log[c][2 * k - 1][3], 5) = 1
    /\ Bit(log[c][2 * k][3], 12) = 1

\* the calls of link_established the log holds both reads of
PollsDone(c) ==
    IF pc[c] = "link_2" /\ hist[c].polls < MaxLinkPolls
    THEN 1..((Len(log[c]) - 1) \div 2)
    ELSE IF pc[c] = "link_2"
    THEN 1..((Len(log[c]) \div 2) - 1)
    ELSE 1..(Len(log[c]) \div 2)

\* the reads of link_established and of block_until_link: register 1 and then
\* register 31, in turn, and no write
LinkReadsOnly(c) ==
    /\ WritesOf(c) = {}
    /\ \A i \in 1..Len(log[c]) :
          log[c][i][2] = (IF i % 2 = 1 THEN Bsr_ADDRESS ELSE PHY_REG_SSR)

LinkEstablishedExact ==
    (IsLinkEstablished(1) /\ pc[1] = "done") =>
        /\ Len(log[1]) = 2
        /\ ret[1] = <<EstablishedAt(1, 1)>>

BlockUntilLinkFirst ==
    IsBlockUntilLink(1) =>
        /\ pc[1] # "panicked"
        /\ pc[1] \in {"link_1", "link_2"} => \A k \in PollsDone(1) : ~EstablishedAt(1, k)
        /\ pc[1] = "done" =>
              /\ Len(log[1]) >= 2
              /\ EstablishedAt(1, Len(log[1]) \div 2)
              /\ \A k \in PollsDone(1) \ {Len(log[1]) \div 2} : ~EstablishedAt(1, k)

LinkPolling(c) == IsBlockUntilLink(c) /\ pc[c] \in {"link_1", "link_2"}

\* C29: link_established reads register 1 and then register 31 and returns
\* true exactly when the first word has bits 2 and 5 set and the second has
\* bit 12 set; block_until_link issues such pairs of reads and no write,
\* returns at the first pair that has the three bits set and at no other, and
\* as long as no pair has them it goes on reading without end.
C29_LinkEstablished ==
    /\ []((IsLinkEstablished(1) \/ IsBlockUntilLink(1)) => LinkReadsOnly(1))
    /\ []LinkEstablishedExact
    /\ []BlockUntilLinkFirst
    /\ (LinkPolling(1) /\ hist[1].tick = 0) ~> (hist[1].tick = 1 \/ pc[1] = "done")
    /\ (LinkPolling(1) /\ hist[1].tick = 1) ~> (hist[1].tick = 0 \/ pc[1] = "done")

\* block_until_link has returned at its second pair of reads, the first with
\* link up and autonegotiation complete but bit 12 clear
C29_Witness ==
    /\ IsBlockUntilLink(1) /\ pc[1] = "done"
    /\ Len(log[1]) = 4
    /\ Bit(log[1][1][3], 2) = 1 /\ Bit(log[1][1][3], 5) = 1 /\ Bit(log[1][2][3], 12) = 0
    /\ EstablishedAt(1, 2)

\* link_established has returned false with two of the three bits set
C29_WitnessFalse ==
    /\ IsLinkEstablished(1) /\ pc[1] = "done"
    /\ ret[1] = <<FALSE>>
    /\ Bit(log[1][1][3], 2) = 1 /\ Bit(log[1][1][3], 5) = 0 /\ Bit(log[1][2][3], 12) = 1

\* the loop has gone round more often than the log can tell apart
C29_WitnessPolling ==
    /\ LinkPolling(1)
    /\ hist[1].polls = MaxLinkPolls
    /\ pc[1] = "link_2"

=============================================================================
